---- MODULE Spec2Model ----
(***************************************************************************)
(* A model of the blog-post service of gosuda.org/boilerplate: the         *)
(* in-memory key/value store (infrastructure.MemoryStore), its JSON codec  *)
(* boundary, the cursor protocol and PostService built on them.            *)
(*                                                                         *)
(*   Spec       PostService (CreatePost, UpdatePost, DeletePost, GetPost,  *)
(*              ListPosts) over a MemoryStore; the other calls run between *)
(*              the steps of the one CreatePost and the one UpdatePost in  *)
(*              flight.                                                    *)
(*   StoreSpec  the MemoryStore operations, one call at a time.            *)
(*   ConcSpec   goroutines calling MemoryStore concurrently; every         *)
(*              operation is split at its lock, map and return steps.      *)
(*   FairSpec   ConcSpec with the fairness the Go scheduler and            *)
(*              sync.RWMutex give.                                         *)
(*   WriterSpec goroutines that each Set keys of their own.                *)
(*   PageSpec   ListPosts over any domain.Store handing it posts.          *)
(*   BoundarySpec  one caller of MemoryStore and of pkg/store Memory that  *)
(*              goes on changing the objects it passed and was given.      *)
(*   CreateSpec goroutines calling CreatePost at the same time.            *)
(*   UpdateSpec goroutines calling UpdatePost at the same time.            *)
(*   DecodeSpec GetPost over a MemoryStore that other callers write too.   *)
(*   HandlerSpec  errors handed to ErrorHandlerMiddleware.HandleError.     *)
(*   WriteSpec  CreatePost and UpdatePost with requests around the length  *)
(*              limits.                                                    *)
(*   MetricsSpec  goroutines calling a MemoryStore through MetricsStore.   *)
(*   CodecSpec  EncodeCursor and DecodeCursor on the text of the token.    *)
(*   DeleteSpec DeletePost between the steps of UpdatePost calls.          *)
(*   HealthSpec goroutines calling GetHealthStatus at the same time.       *)
(*   GaugeSpec  goroutines calling MetricsStore, its gauge written last.   *)
(*   ShutdownSpec  main from the signal on, and the request handlers.      *)
(***************************************************************************)
EXTENDS Integers, Sequences, FiniteSets, TLC

VARIABLES
    data,      \* MemoryStore.data: key -> encoded payload
    clock,     \* the reading time.Now() would return
    last,      \* the last completed call of the sequential specifications
    pre,       \* the map of the store called, as it was when that call started
    gone,      \* keys deleted and not set again since
    trav,      \* the traversal a ListPosts client is carrying out
    pc,        \* per goroutine: its position inside the store operation
    call,      \* per goroutine: the operation it is executing
    res,       \* per goroutine: the result the operation returns
    visited,   \* per goroutine: map entries its range loop has visited
    snap,      \* per goroutine: MemoryStore.data when it took the lock
    wmu,       \* sync.RWMutex: the writer holding or waiting for the lock
    readers,   \* sync.RWMutex: the goroutines holding the read lock
    hist,      \* what concurrent writers have completed
    mem,       \* pkg/store Memory.m: key -> the value it was given
    heap,      \* the objects a caller of a store holds, by address
    sent,      \* per store and key: the value of the last Set, as it was then
    metrics    \* MetricsCollector: the storage gauge and operation labels

vars == <<data, clock, last, pre, gone, trav, pc, call, res, visited, snap,
          wmu, readers, hist, mem, heap, sent, metrics>>

-----------------------------------------------------------------------------
(* Bounds of the model.                                                    *)

MaxClock == 2
NumProcs == 2
MaxView == 2      \* posts a store hands to ListPosts
MaxIdLen == 2     \* characters of an id put into a cursor
LimitSlack == 3   \* how far beyond MinLimit and MaxLimit requested limits go

(* Program constants.                                                      *)

DefaultLimit == 20
MinLimit == 1
MaxLimit == 100
MinTitleLength == 1
MaxTitleLength == 200
MinContentLength == 1
MaxContentLength == 10000

-----------------------------------------------------------------------------
(* Generic helpers.                                                        *)

EmptyMap == [k \in {} |-> 0]

Range(s) == {s[i] : i \in 1..Len(s)}

\* all orders in which the elements of a finite set can be enumerated
RECURSIVE Perms(_)
Perms(S) ==
    IF S = {} THEN {<<>>}
    ELSE UNION {{<<x>> \o t : t \in Perms(S \ {x})} : x \in S}

MapSeq(s, F(_)) == [i \in 1..Len(s) |-> F(s[i])]

-----------------------------------------------------------------------------
(* Keys. A key is a string, modelled as the sequence of its pieces so that *)
(* strings.HasPrefix can be computed.                                      *)

HasPrefix(key, prefix) ==
    /\ Len(prefix) <= Len(key)
    /\ SubSeq(key, 1, Len(prefix)) = prefix

EmptyKey == <<>>
PostsPrefix == <<"posts", ":">>
postKey(id) == PostsPrefix \o <<id>>

\* generatePostID: "post-<UnixNano>"
IdNames == <<"post-1", "post-2", "post-3", "post-4", "post-5">>
generatePostID(now) == IdNames[now]
PostIds == {IdNames[i] : i \in 1..MaxClock}

-----------------------------------------------------------------------------
(* Go values and the JSON codec.                                           *)

Nil == [kind |-> "nil"]
Chan == [kind |-> "chan"]

\* a Go string: the text s followed by bad bytes that are no UTF-8 (0xff)
StrBytes(s, bad) == [kind |-> "string", s |-> s, bad |-> bad]
Str(s) == StrBytes(s, 0)

\* a number is hi * 2^53 + n, with hi of -1, 0 or 1 and n small: the
\* integers a float64 holds one by one end at 2^53
Num(kind, hi, n) == [kind |-> kind, hi |-> hi, n |-> n]
IntVal(n) == Num("int", 0, n)
Float64(n) == Num("float64", 0, n)

\* a nil map[string]interface{} and a nil []interface{}
NilMap == [kind |-> "nilmap"]
NilSlice == [kind |-> "nilslice"]

\* a text and its utf8.RuneCountInString
Text(name, runes) == [name |-> name, runes |-> runes]
RuneCountInString(t) == t.runes

PostValue(kind, id, title, content, createdAt, updatedAt) ==
    [kind |-> kind, id |-> id, title |-> title, content |-> content,
     createdAt |-> createdAt, updatedAt |-> updatedAt]

IsPostKind(v) == v.kind \in {"Post", "PostPtr"}

\* a bool, a slice, and a struct or map that has none of the members of a
\* post: elems is the sequence, or the function from member names, of the
\* Go values it holds
Bool(b) == [kind |-> "bool", b |-> b]
Slice(elems) == [kind |-> "slice", elems |-> elems]
Struct(elems) == [kind |-> "struct", elems |-> elems]

RECURSIVE Marshal(_)
RECURSIVE UnmarshalAny(_)
RECURSIVE ToValidUTF8(_, _)

\* encoding/json writing a string: every byte that is no UTF-8 becomes the
\* replacement character U+FFFD
ToValidUTF8(s, bad) == IF bad = 0 THEN s ELSE ToValidUTF8(s \o "\\ufffd", bad - 1)

\* strconv.ParseFloat(text, 64) of the integer hi * 2^53 + n, as its n, for
\* hi of -1, 0 and 1 and n small: every integer from -2^53 to 2^53 is a
\* float64; beyond them, up to 2^54, a float64 holds the even integers
\* only, and an odd one goes to the neighbour whose mantissa is even
RoundToFloat64(hi, n) ==
    CASE hi = 0 -> n
      [] hi = 1 /\ n < 0 -> n
      [] hi = 1 /\ n >= 0 /\ n % 2 = 0 -> n
      [] hi = 1 /\ n >= 0 /\ n % 4 = 1 -> n - 1
      [] hi = 1 /\ n >= 0 /\ n % 4 = 3 -> n + 1
      [] hi = -1 /\ n > 0 -> n
      [] hi = -1 /\ n <= 0 /\ (-n) % 2 = 0 -> n
      [] hi = -1 /\ n <= 0 /\ (-n) % 4 = 1 -> n + 1
      [] hi = -1 /\ n <= 0 /\ (-n) % 4 = 3 -> n - 1

\* json.Marshal: a pointer encodes as the struct it points to, a time.Time
\* as its RFC 3339 text, a map[string]interface{} as the object of its
\* entries, an int or float64 as a number, nil as null, a bool as true or
\* false, a slice as the array of its encoded elements, a struct or map as
\* the object of its encoded members, a nil map or nil slice as null, a
\* channel not at all, and neither does a slice, struct or map that holds
\* one. A string is written as valid UTF-8, a number digit for digit. The
\* id, title and content of a post are valid UTF-8 as they stand: they come
\* from generatePostID and from a decoded request.
Marshal(v) ==
    CASE v.kind = "string" ->
            [err |-> "nil",
             bytes |-> [j |-> "string", s |-> ToValidUTF8(v.s, v.bad)]]
      [] v.kind \in {"int", "float64"} ->
            [err |-> "nil", bytes |-> [j |-> "number", hi |-> v.hi, n |-> v.n]]
      [] v.kind \in {"nil", "nilmap", "nilslice"} ->
            [err |-> "nil", bytes |-> [j |-> "null"]]
      [] v.kind = "bool" -> [err |-> "nil", bytes |-> [j |-> "bool", b |-> v.b]]
      [] v.kind \in {"slice", "anyslice"} ->
            IF \E i \in DOMAIN v.elems : Marshal(v.elems[i]).err # "nil"
            THEN [err |-> "MarshalError", bytes |-> Nil]
            ELSE [err |-> "nil",
                  bytes |-> [j |-> "array",
                             elems |-> [i \in DOMAIN v.elems |->
                                            Marshal(v.elems[i]).bytes]]]
      [] v.kind \in {"struct", "anymap"} ->
            IF \E m \in DOMAIN v.elems : Marshal(v.elems[m]).err # "nil"
            THEN [err |-> "MarshalError", bytes |-> Nil]
            ELSE [err |-> "nil",
                  bytes |-> [j |-> "members",
                             elems |-> [m \in DOMAIN v.elems |->
                                            Marshal(v.elems[m]).bytes]]]
      [] v.kind = "map" ->
            [err |-> "nil",
             bytes |-> [j |-> "object", id |-> v.id, title |-> v.title,
                        content |-> v.content,
                        createdAt |-> v.createdAt.s,
                        updatedAt |-> v.updatedAt.s]]
      [] IsPostKind(v) ->
            [err |-> "nil",
             bytes |-> [j |-> "object", id |-> v.id, title |-> v.title,
                        content |-> v.content,
                        createdAt |-> [rfc3339 |-> v.createdAt],
                        updatedAt |-> [rfc3339 |-> v.updatedAt]]]
      [] v.kind = "chan" -> [err |-> "MarshalError", bytes |-> Nil]

\* json.Unmarshal(data, &result) with result of type any: a JSON string
\* becomes a Go string, a JSON number the float64 nearest to it, null nil,
\* true and false a bool, an array a []interface{} and a JSON object a
\* map[string]interface{}, each of what its elements decode to
UnmarshalAny(bytes) ==
    CASE bytes.j = "string" -> [err |-> "nil", val |-> Str(bytes.s)]
      [] bytes.j = "number" ->
            [err |-> "nil",
             val |-> Num("float64", bytes.hi, RoundToFloat64(bytes.hi, bytes.n))]
      [] bytes.j = "null" -> [err |-> "nil", val |-> Nil]
      [] bytes.j = "bool" -> [err |-> "nil", val |-> Bool(bytes.b)]
      [] bytes.j = "array" ->
            [err |-> "nil",
             val |-> [kind |-> "anyslice",
                      elems |-> [i \in DOMAIN bytes.elems |->
                                     UnmarshalAny(bytes.elems[i]).val]]]
      [] bytes.j = "members" ->
            [err |-> "nil",
             val |-> [kind |-> "anymap",
                      elems |-> [m \in DOMAIN bytes.elems |->
                                     UnmarshalAny(bytes.elems[m]).val]]]
      [] bytes.j = "object" ->
            [err |-> "nil",
             val |-> [kind |-> "map", id |-> bytes.id, title |-> bytes.title,
                      content |-> bytes.content,
                      createdAt |-> Str(bytes.createdAt),
                      updatedAt |-> Str(bytes.updatedAt)]]
      [] OTHER -> [err |-> "UnmarshalError", val |-> Nil]

\* the zero value of the target named: a Post, a string, an int, a float64,
\* a bool, an any (nil), a map[string]interface{} (nil: no entries) or a
\* []interface{} (nil: no elements)
ZeroOf(shape) ==
    CASE shape = "Post" -> PostValue("Post", "", Text("", 0), Text("", 0), 0, 0)
      [] shape = "string" -> Str("")
      [] shape = "int" -> IntVal(0)
      [] shape = "float64" -> Float64(0)
      [] shape = "bool" -> Bool(FALSE)
      [] shape = "any" -> Nil
      [] shape = "anymap" -> NilMap
      [] shape = "anyslice" -> NilSlice

\* json.Unmarshal(data, value) with value a pointer to the target named, a
\* fresh zero value; null leaves the target as it is and is no error, and
\* so does, for a Post, an object that has none of its members; an any
\* takes whatever the JSON holds, every other target the JSON of its own
\* type only; an int takes the integer digit for digit, a float64 the
\* float64 nearest to it
UnmarshalTyped(bytes, shape) ==
    IF bytes.j = "null" THEN [err |-> "nil", val |-> ZeroOf(shape)]
    ELSE CASE shape = "any" -> UnmarshalAny(bytes)
           [] shape = "anymap" /\ bytes.j \in {"members", "object"} ->
                 UnmarshalAny(bytes)
           [] shape = "anyslice" /\ bytes.j = "array" -> UnmarshalAny(bytes)
           [] shape = "bool" /\ bytes.j = "bool" ->
                 [err |-> "nil", val |-> Bool(bytes.b)]
           [] shape = "float64" /\ bytes.j = "number" ->
                 [err |-> "nil",
                  val |-> Num("float64", bytes.hi,
                              RoundToFloat64(bytes.hi, bytes.n))]
           [] shape = "int" /\ bytes.j = "number" ->
                 [err |-> "nil", val |-> Num("int", bytes.hi, bytes.n)]
           [] shape = "string" /\ bytes.j = "string" ->
                 [err |-> "nil", val |-> Str(bytes.s)]
           [] shape = "Post" /\ bytes.j = "members" ->
                 [err |-> "nil", val |-> ZeroOf(shape)]
           [] shape = "Post" /\ bytes.j = "object" ->
                 [err |-> "nil",
                  val |-> PostValue("Post", bytes.id, bytes.title, bytes.content,
                                    bytes.createdAt.rfc3339,
                                    bytes.updatedAt.rfc3339)]
           [] OTHER -> [err |-> "UnmarshalError", val |-> Nil]

-----------------------------------------------------------------------------
(* MemoryStore, one call at a time.                                        *)

MapSet(d, key, bytes) ==
    [k \in DOMAIN d \cup {key} |-> IF k = key THEN bytes ELSE d[k]]

MapDelete(d, key) == [k \in DOMAIN d \ {key} |-> d[k]]

SetOpLossy(d, key, value) ==
    IF key = EmptyKey THEN [data |-> d, err |-> "InvalidKey"]
    ELSE LET m == Marshal(value) IN
         IF m.err # "nil" THEN [data |-> d, err |-> "MarshalError"]
         ELSE IF key \in DOMAIN d THEN [data |-> d, err |-> "nil"]
         ELSE [data |-> MapSet(d, key, m.bytes), err |-> "nil"]

SetOpAnyKey(d, key, value) ==
    LET m == Marshal(value) IN
    IF m.err # "nil" THEN [data |-> d, err |-> "MarshalError"]
    ELSE [data |-> MapSet(d, key, m.bytes), err |-> "nil"]

SetOpWritesFirst(d, key, value) ==
    IF key = EmptyKey THEN [data |-> d, err |-> "InvalidKey"]
    ELSE LET m == Marshal(value) IN
         IF m.err # "nil"
         THEN [data |-> MapSet(d, key, [j |-> "empty"]), err |-> "MarshalError"]
         ELSE [data |-> MapSet(d, key, m.bytes), err |-> "nil"]

SetOp(d, key, value) ==
    IF key = EmptyKey THEN [data |-> d, err |-> "InvalidKey"]
    ELSE LET m == Marshal(value) IN
         IF m.err # "nil" THEN [data |-> d, err |-> "MarshalError"]
         ELSE [data |-> MapSet(d, key, m.bytes), err |-> "nil"]

GetOp(d, key) ==
    IF key = EmptyKey THEN [err |-> "InvalidKey", val |-> Nil]
    ELSE IF key \notin DOMAIN d THEN [err |-> "ErrKeyNotFound", val |-> Nil]
    ELSE UnmarshalAny(d[key])

GetTypedOpHidesDecodeError(d, key, shape) ==
    IF key = EmptyKey THEN [err |-> "InvalidKey", val |-> Nil]
    ELSE IF key \notin DOMAIN d THEN [err |-> "ErrKeyNotFound", val |-> Nil]
    ELSE IF UnmarshalTyped(d[key], shape).err # "nil"
    THEN [err |-> "ErrKeyNotFound", val |-> Nil]
    ELSE UnmarshalTyped(d[key], shape)

GetTypedOp(d, key, shape) ==
    IF key = EmptyKey THEN [err |-> "InvalidKey", val |-> Nil]
    ELSE IF key \notin DOMAIN d THEN [err |-> "ErrKeyNotFound", val |-> Nil]
    ELSE UnmarshalTyped(d[key], shape)

DeleteOpKeeps(d, key) ==
    IF key = EmptyKey THEN [data |-> d, err |-> "InvalidKey"]
    ELSE IF key \notin DOMAIN d THEN [data |-> d, err |-> "ErrKeyNotFound"]
    ELSE [data |-> d, err |-> "nil"]

DeleteOpSilent(d, key) ==
    IF key = EmptyKey THEN [data |-> d, err |-> "InvalidKey"]
    ELSE [data |-> MapDelete(d, key), err |-> "nil"]

DeleteOp(d, key) ==
    IF key = EmptyKey THEN [data |-> d, err |-> "InvalidKey"]
    ELSE IF key \notin DOMAIN d THEN [data |-> d, err |-> "ErrKeyNotFound"]
    ELSE [data |-> MapDelete(d, key), err |-> "nil"]

CloseOp(d) == [data |-> EmptyMap, err |-> "nil"]

\* the keys a range over the map appends a value for
Matching(d, keyPrefix) == {k \in DOMAIN d : HasPrefix(k, keyPrefix)}

\* List: the values of the matching entries, in the order the range over
\* the map happens to visit them
ListOp(d, keyPrefix) ==
    {MapSeq(order, LAMBDA k : UnmarshalAny(d[k]).val) :
        order \in Perms(Matching(d, keyPrefix))}

SizeOpNonEmpty(d) == IF d = EmptyMap THEN 0 ELSE 1

SizeOp(d) == Cardinality(DOMAIN d)

ClearOp(d) == [data |-> EmptyMap, err |-> "nil"]

ExistsOp(d, key) == key # EmptyKey /\ key \in DOMAIN d

-----------------------------------------------------------------------------
(* The cursor protocol. A token is the URL-safe base64 text of the JSON    *)
(* encoding of a Cursor; the model keeps what the text encodes.            *)

Token(tok, id, limit) == [tok |-> tok, id |-> id, limit |-> limit]
EmptyCursor == Token("empty", "", 0)        \* the empty string
NotBase64 == Token("notbase64", "", 0)      \* e.g. "%%%"
NotJSON == Token("notjson", "", 0)          \* base64 of text that is no JSON

\* EncodeCursor of a non-nil cursor: json.Marshal, then base64.URLEncoding
EncodeCursor(c) == Token("cursor", c.id, c.limit)

\* DecodeCursor: [err, isNil, cursor]
DecodeCursor(t) ==
    CASE t.tok = "empty" -> [err |-> "nil", isNil |-> TRUE, id |-> "", limit |-> 0]
      [] t.tok = "cursor" -> [err |-> "nil", isNil |-> FALSE, id |-> t.id, limit |-> t.limit]
      [] OTHER -> [err |-> "PaginationError", isNil |-> TRUE, id |-> "", limit |-> 0]

CreateNextCursorDefaultLimit(lastID, limit) ==
    IF lastID = "" THEN EmptyCursor
    ELSE EncodeCursor([id |-> lastID, limit |-> DefaultLimit])

\* CreateNextCursor
CreateNextCursor(lastID, limit) ==
    IF lastID = "" THEN EmptyCursor
    ELSE EncodeCursor([id |-> lastID, limit |-> limit])

NewPaginationParamsNoMax(cursor, limit) ==
    LET l1 == IF limit <= 0 THEN DefaultLimit ELSE limit
        l3 == IF l1 < MinLimit THEN MinLimit ELSE l1
    IN [cursor |-> cursor, limit |-> l3]

\* NewPaginationParams: the limit a request runs with
NewPaginationParams(cursor, limit) ==
    LET l1 == IF limit <= 0 THEN DefaultLimit ELSE limit
        l2 == IF l1 > MaxLimit THEN MaxLimit ELSE l1
        l3 == IF l2 < MinLimit THEN MinLimit ELSE l2
    IN [cursor |-> cursor, limit |-> l3]

\* ValidatePaginationParams: "nil" or the error it returns
ValidatePaginationParams(cursor, limit) ==
    IF limit < MinLimit \/ limit > MaxLimit THEN "LimitError"
    ELSE IF cursor # EmptyCursor /\ DecodeCursor(cursor).err # "nil"
    THEN DecodeCursor(cursor).err
    ELSE "nil"

-----------------------------------------------------------------------------
(* Inputs of the store specifications.                                     *)

HealthKey == <<"health", ":", "test">>
StoreKeys == {EmptyKey, <<"posts">>, postKey("post-1"), HealthKey}
Prefixes == {<<>>, <<"posts">>, PostsPrefix, <<"health">>, <<":">>}
SamplePost == PostValue("PostPtr", "post-1", Text("t1", 2), Text("c1", 2), 1, 1)
\* among the values: a string that ends in a byte that is no UTF-8, and
\* the integer 2^53 + 1
StoreValues ==
    {Str("v1"), StrBytes("v2", 1), Bool(TRUE), Num("int", 1, 1),
     Struct([name |-> Str("test"), age |-> IntVal(25)]), SamplePost, Chan}
Shapes == {"Post", "string", "bool", "int", "any", "anymap"}
MetricsShapes == {"Post", "string"}

Procs == 1..NumProcs

NoCall == [op |-> "none", key |-> EmptyKey, arg |-> Nil, err |-> "nil",
           val |-> Nil, vals |-> <<>>, next |-> EmptyCursor]
Done(op, key, arg, err, val, vals) ==
    [op |-> op, key |-> key, arg |-> arg, err |-> err, val |-> val, vals |-> vals,
     next |-> EmptyCursor]

NoTrav == [active |-> FALSE, done |-> FALSE, limit |-> 0, cursor |-> EmptyCursor,
           seen |-> <<>>, all |-> {}, stable |-> {}, mutated |-> FALSE,
           stale |-> FALSE]

NoOp == [op |-> "none", key |-> EmptyKey, arg |-> Nil]
NoRes == [err |-> "nil", val |-> Nil, vals |-> <<>>, n |-> 0]
NoSnap == [taken |-> FALSE, data |-> EmptyMap]
NoHist == [k \in {} |-> Nil]

\* a caller's objects: "o1" is a *Post of its own making, "r" the object the
\* last Get or GetTyped handed to it, if any
Ref(a) == [kind |-> "ref", addr |-> a]

\* a new MetricsCollector: the gauge storage_items_current and the
\* operation labels that storage_operations_total has counted
NoMetrics == [items |-> 0, ops |-> {}]
NoHeap ==
    [a \in {"o1", "r"} |->
        IF a = "o1"
        THEN PostValue("PostPtr", "post-1", Text("t1", 2), Text("c1", 2), 1, 1)
        ELSE Nil]

Init ==
    /\ data = EmptyMap
    /\ clock = 1
    /\ last = NoCall
    /\ pre = EmptyMap
    /\ gone = {}
    /\ trav = NoTrav
    /\ pc = [p \in Procs |-> "idle"]
    /\ call = [p \in Procs |-> NoOp]
    /\ res = [p \in Procs |-> NoRes]
    /\ visited = [p \in Procs |-> {}]
    /\ snap = [p \in Procs |-> NoSnap]
    /\ wmu = 0
    /\ readers = {}
    /\ hist = NoHist
    /\ mem = EmptyMap
    /\ heap = NoHeap
    /\ sent = EmptyMap
    /\ metrics = NoMetrics

concVars == <<pc, call, res, visited, snap, wmu, readers, hist>>
libVars == <<mem, heap, sent, metrics>>

-----------------------------------------------------------------------------
(* StoreSpec: MemoryStore called by one goroutine.                         *)

Set(key, value) ==
    LET r == SetOp(data, key, value) IN
    /\ data' = r.data
    /\ pre' = data
    /\ gone' = IF r.err = "nil" THEN gone \ {key} ELSE gone
    /\ last' = Done("Set", key, value, r.err, Nil, <<>>)
    /\ UNCHANGED <<clock, trav, concVars, libVars>>

Get(key) ==
    LET r == GetOp(data, key) IN
    /\ pre' = data
    /\ last' = Done("Get", key, Nil, r.err, r.val, <<>>)
    /\ UNCHANGED <<data, gone, clock, trav, concVars, libVars>>

GetTyped(key, shape) ==
    LET r == GetTypedOp(data, key, shape) IN
    /\ pre' = data
    /\ last' = Done("GetTyped", key, Str(shape), r.err, r.val, <<>>)
    /\ UNCHANGED <<data, gone, clock, trav, concVars, libVars>>

List(keyPrefix) ==
    \E values \in ListOp(data, keyPrefix) :
        /\ pre' = data
        /\ last' = Done("List", keyPrefix, Nil, "nil", Nil, values)
        /\ UNCHANGED <<data, gone, clock, trav, concVars, libVars>>

Delete(key) ==
    LET r == DeleteOp(data, key) IN
    /\ data' = r.data
    /\ pre' = data
    /\ gone' = IF r.err = "nil" THEN gone \cup {key} ELSE gone
    /\ last' = Done("Delete", key, Nil, r.err, Nil, <<>>)
    /\ UNCHANGED <<clock, trav, concVars, libVars>>

Close ==
    LET r == CloseOp(data) IN
    /\ data' = r.data
    /\ pre' = data
    /\ last' = Done("Close", EmptyKey, Nil, r.err, Nil, <<>>)
    /\ UNCHANGED <<gone, clock, trav, concVars, libVars>>

Exists(key) ==
    /\ pre' = data
    /\ last' = Done("Exists", key, Nil, "nil",
                    Bool(ExistsOp(data, key)), <<>>)
    /\ UNCHANGED <<data, gone, clock, trav, concVars, libVars>>

Size ==
    /\ pre' = data
    /\ last' = Done("Size", EmptyKey, Nil, "nil", IntVal(SizeOp(data)), <<>>)
    /\ UNCHANGED <<data, gone, clock, trav, concVars, libVars>>

Clear ==
    LET r == ClearOp(data) IN
    /\ data' = r.data
    /\ pre' = data
    /\ last' = Done("Clear", EmptyKey, Nil, r.err, Nil, <<>>)
    /\ UNCHANGED <<gone, clock, trav, concVars, libVars>>

StoreNext ==
    \/ \E k \in StoreKeys, v \in StoreValues : Set(k, v)
    \/ \E k \in StoreKeys : Get(k)
    \/ \E k \in StoreKeys, sh \in Shapes : GetTyped(k, sh)
    \/ \E p \in Prefixes : List(p)
    \/ \E k \in StoreKeys : Delete(k)
    \/ Close
    \/ \E k \in StoreKeys : Exists(k)
    \/ Size
    \/ Clear

StoreSpec == Init /\ [][StoreNext]_vars

\* C4: once Delete(k) has succeeded, every Get(k) fails with ErrKeyNotFound
\* until a Set(k, _) succeeds; a key never has more than one payload.
C4_DeletedKeyNotFound ==
    /\ \A k \in gone : GetOp(data, k).err = "ErrKeyNotFound"
    /\ (last.op = "Get" /\ last.key \in gone) => last.err = "ErrKeyNotFound"
    /\ \A k \in DOMAIN data : Cardinality({data[j] : j \in {k}}) = 1

C4_Witness ==
    /\ last.op = "Get"
    /\ last.key \in gone
    /\ last.err = "ErrKeyNotFound"
    /\ data # EmptyMap

\* C5: Set either returns nil and the entry of its key is the encoding of
\* its value, every other entry as before; or returns an error (empty key,
\* value that cannot be encoded) and the map is as before.
C5_SetReplacesOrLeavesIntact ==
    last.op = "Set" =>
        IF last.err = "nil"
        THEN /\ last.key # EmptyKey
             /\ Marshal(last.arg).err = "nil"
             /\ DOMAIN data = DOMAIN pre \cup {last.key}
             /\ data[last.key] = Marshal(last.arg).bytes
             /\ \A k \in DOMAIN pre \ {last.key} : data[k] = pre[k]
        ELSE /\ data = pre
             /\ (last.key = EmptyKey \/ Marshal(last.arg).err # "nil")

C5_Witness ==
    /\ last.op = "Set"
    /\ last.err = "nil"
    /\ last.key \in DOMAIN pre
    /\ pre[last.key] # data[last.key]
    /\ Cardinality(DOMAIN data) > 1

\* C15: Set, Get, GetTyped and Delete with the empty key return the
\* invalid-key error, which is not the not-found error, Exists("") is false,
\* none of them changes the map, and the map never has an entry under the
\* empty key.
C15_EmptyKeyRejected ==
    /\ EmptyKey \notin DOMAIN data
    /\ (last.op \in {"Set", "Get", "GetTyped", "Delete"} /\ last.key = EmptyKey) =>
          /\ last.err = "InvalidKey"
          /\ last.err # "ErrKeyNotFound"
          /\ data = pre
    /\ (last.op = "Exists" /\ last.key = EmptyKey) =>
          /\ last.val.b = FALSE
          /\ data = pre

C15_Witness ==
    /\ last.op = "Set"
    /\ last.key = EmptyKey
    /\ last.arg = Str("v1")
    /\ last.err = "InvalidKey"
    /\ data # EmptyMap

\* C17: whenever Set, Get, GetTyped, List or Delete returns an error, the map
\* is what it was before the call.
C17_FailureLeavesMapIntact ==
    (last.op \in {"Set", "Get", "GetTyped", "List", "Delete"} /\ last.err # "nil")
        => data = pre

C17_Witness ==
    /\ last.op = "Set"
    /\ last.err = "MarshalError"
    /\ last.key \in DOMAIN pre
    /\ data = pre

\* what the calls do to the number of keys: Size returns the number of
\* keys that are set, a Set of a new key adds one, a Set of a key already
\* set adds none, a Delete that succeeds takes one away, Close and Clear
\* leave none
SizeFollowsCalls ==
    /\ last.op = "Size" => last.val.n = Cardinality(DOMAIN data)
    /\ (last.op = "Set" /\ last.err = "nil" /\ last.key \notin DOMAIN pre) =>
          Cardinality(DOMAIN data) = Cardinality(DOMAIN pre) + 1
    /\ (last.op = "Set" /\ last.err = "nil" /\ last.key \in DOMAIN pre) =>
          Cardinality(DOMAIN data) = Cardinality(DOMAIN pre)
    /\ (last.op = "Delete" /\ last.err = "nil") =>
          Cardinality(DOMAIN data) = Cardinality(DOMAIN pre) - 1
    /\ last.op \in {"Close", "Clear"} => Cardinality(DOMAIN data) = 0

\* C30 as stated: Size follows the calls, and Exists(k) is true exactly
\* when Get(k) does not return the not-found error, for every key k.
C30_SizeExistsAgree ==
    /\ SizeFollowsCalls
    /\ last.op = "Exists" =>
          (last.val.b <=> GetOp(data, last.key).err # "ErrKeyNotFound")

\* C30, amended: Size follows the calls, and for every key k other than
\* the empty key Exists(k) is true exactly when Get(k) does not return the
\* not-found error; Exists of the empty key is false, while Get of it
\* returns the invalid-key error.
C30_SizeExistsAgreeNonEmpty ==
    /\ SizeFollowsCalls
    /\ (last.op = "Exists" /\ last.key # EmptyKey) =>
          (last.val.b <=> GetOp(data, last.key).err # "ErrKeyNotFound")
    /\ (last.op = "Exists" /\ last.key = EmptyKey) =>
          /\ last.val.b = FALSE
          /\ GetOp(data, last.key).err = "InvalidKey"

\* Size after a Delete and two Sets have left two keys
C30_Witness ==
    /\ last.op = "Size"
    /\ last.val.n = 2
    /\ gone # {}
    /\ ExistsOp(data, HealthKey)
    /\ ~ExistsOp(data, postKey("post-1"))

-----------------------------------------------------------------------------
(* ConcSpec: goroutines calling one MemoryStore concurrently.              *)
(*                                                                         *)
(* Positions of a goroutine: idle, lock (about to call mu.Lock or          *)
(* mu.RLock), wait (a writer waiting for the readers to leave), blocked (a *)
(* reader held back by a writer), cs and cs2 (inside the critical          *)
(* section), unlock (the deferred Unlock or RUnlock is about to run), ret  *)
(* (the call has returned its result).                                     *)

ConcKeys == {EmptyKey, <<"a">>, <<"a", "b">>}
ConcPrefixes == {<<>>, <<"a">>, <<"a", "b">>}
ConcValues == {Str("v1"), Str("v2")}

KeyedOps == {"Get", "Delete"}
Calls ==
    [op : {"Set"}, key : ConcKeys \ {EmptyKey}, arg : ConcValues]
    \cup {[op |-> "Set", key |-> EmptyKey, arg |-> Str("v1")],
          [op |-> "Set", key |-> <<"a">>, arg |-> Chan]}
    \cup [op : KeyedOps, key : ConcKeys, arg : {Nil}]
    \cup [op : {"GetTyped", "Exists"}, key : {EmptyKey, <<"a">>}, arg : {Str("string")}]
    \cup [op : {"List"}, key : ConcPrefixes, arg : {Nil}]
    \cup [op : {"ListKeys"}, key : {<<"a", "b">>}, arg : {Nil}]
    \cup [op : {"Close", "Clear", "Size"}, key : {EmptyKey}, arg : {Nil}]

\* the operations that return before locking when the key is empty
ChecksKey(op) == op \in {"Set", "Get", "GetTyped", "Delete", "Exists"}

LockKindShared(op) == IF op \in {"Set", "Close", "Clear"} THEN "W" ELSE "R"

LockKindSetShared(op) == IF op \in {"Delete", "Close", "Clear"} THEN "W" ELSE "R"

\* which side of mu an operation takes: Lock or RLock
LockKind(op) == IF op \in {"Set", "Delete", "Close", "Clear"} THEN "W" ELSE "R"

ExitPcLeaky(op, err) == IF err = "ErrKeyNotFound" THEN "ret" ELSE "unlock"

\* where an operation goes when its body returns: the deferred unlock
ExitPc(op, err) == "unlock"

ReaderMayEnterAlways(w) == TRUE

\* RLock enters at once unless a writer holds or awaits the lock
ReaderMayEnter(w) == w = 0

ListAppendsEqual(k, keyPrefix) == Len(keyPrefix) = 0 \/ k = keyPrefix

\* List, line 278: the test that selects an entry
ListAppends(k, keyPrefix) == HasPrefix(k, keyPrefix)

InCS(q) == pc[q] \in {"cs", "cs2", "unlock"}

\* a map access while another goroutine is inside the map is a data race
Racing(p) == \E q \in Procs \ {p} : InCS(q)

\* a write to the map: under a data race it may be lost
MapWrite(p, new) == data' \in (IF Racing(p) THEN {new, data} ELSE {new})

Taken(d) == [taken |-> TRUE, data |-> d]

\* the calls whose snapshot is remembered after they return
KeepsSnap(op) == op \in {"List", "Size"}

Result(err, val, vals, n) == [err |-> err, val |-> val, vals |-> vals, n |-> n]

seqVars == <<clock, last, pre, gone, trav>>

Invoke(p, c) ==
    /\ pc[p] = "idle"
    /\ call' = [call EXCEPT ![p] = c]
    /\ IF ChecksKey(c.op) /\ c.key = EmptyKey
       THEN /\ pc' = [pc EXCEPT ![p] = "ret"]
            /\ res' = [res EXCEPT ![p] =
                         IF c.op = "Exists" THEN Result("nil", Nil, <<>>, 0)
                         ELSE Result("InvalidKey", Nil, <<>>, 0)]
       ELSE /\ pc' = [pc EXCEPT ![p] = "lock"]
            /\ res' = [res EXCEPT ![p] = NoRes]
    /\ UNCHANGED <<data, visited, snap, wmu, readers, hist, seqVars, libVars>>

\* mu.Lock, first half: take the writer mutex and announce the writer
Lock(p) ==
    /\ pc[p] = "lock"
    /\ LockKind(call[p].op) = "W"
    /\ wmu = 0
    /\ wmu' = p
    /\ pc' = [pc EXCEPT ![p] = "wait"]
    /\ UNCHANGED <<data, call, res, visited, snap, readers, hist, seqVars, libVars>>

\* mu.Lock, second half: the readers that were inside have left
LockEnter(p) ==
    /\ pc[p] = "wait"
    /\ readers = {}
    /\ pc' = [pc EXCEPT ![p] = "cs"]
    /\ snap' = [snap EXCEPT ![p] = Taken(data)]
    /\ UNCHANGED <<data, call, res, visited, wmu, readers, hist, seqVars, libVars>>

\* mu.RLock: enter, or block behind an announced writer
RLock(p) ==
    /\ pc[p] = "lock"
    /\ LockKind(call[p].op) = "R"
    /\ IF ReaderMayEnter(wmu)
       THEN /\ readers' = readers \cup {p}
            /\ pc' = [pc EXCEPT ![p] = "cs"]
            /\ snap' = [snap EXCEPT ![p] = Taken(data)]
       ELSE /\ pc' = [pc EXCEPT ![p] = "blocked"]
            /\ UNCHANGED <<readers, snap>>
    /\ UNCHANGED <<data, call, res, visited, wmu, hist, seqVars, libVars>>

\* Set, lines 210-221
SetCS(p) ==
    /\ pc[p] = "cs"
    /\ call[p].op = "Set"
    /\ LET m == Marshal(call[p].arg) IN
       /\ IF m.err # "nil"
          THEN data' = data
          ELSE MapWrite(p, MapSet(data, call[p].key, m.bytes))
       /\ res' = [res EXCEPT ![p] = Result(m.err, Nil, <<>>, 0)]
       /\ pc' = [pc EXCEPT ![p] = ExitPc("Set", m.err)]
    /\ UNCHANGED <<call, visited, snap, wmu, readers, hist, seqVars, libVars>>

\* the bodies of Get, GetTyped, Size and Exists: one read of the map
ReadCS(p) ==
    /\ pc[p] = "cs"
    /\ call[p].op \in {"Get", "GetTyped", "Size", "Exists"}
    /\ LET c == call[p]
           r == CASE c.op = "Get" ->
                       LET g == GetOp(data, c.key) IN Result(g.err, g.val, <<>>, 0)
                  [] c.op = "GetTyped" ->
                       LET g == GetTypedOp(data, c.key, c.arg.s) IN
                       Result(g.err, g.val, <<>>, 0)
                  [] c.op = "Size" -> Result("nil", Nil, <<>>, SizeOp(data))
                  [] c.op = "Exists" ->
                       Result("nil", Nil, <<>>, IF ExistsOp(data, c.key) THEN 1 ELSE 0)
       IN /\ res' = [res EXCEPT ![p] = r]
          /\ pc' = [pc EXCEPT ![p] = ExitPc(c.op, r.err)]
    /\ UNCHANGED <<data, call, visited, snap, wmu, readers, hist, seqVars, libVars>>

\* Delete, lines 317-319: the existence test
DeleteCheck(p) ==
    /\ pc[p] = "cs"
    /\ call[p].op = "Delete"
    /\ IF call[p].key \notin DOMAIN data
       THEN /\ res' = [res EXCEPT ![p] = Result("ErrKeyNotFound", Nil, <<>>, 0)]
            /\ pc' = [pc EXCEPT ![p] = ExitPc("Delete", "ErrKeyNotFound")]
       ELSE /\ pc' = [pc EXCEPT ![p] = "cs2"]
            /\ UNCHANGED res
    /\ UNCHANGED <<data, call, visited, snap, wmu, readers, hist, seqVars, libVars>>

\* Delete, lines 321-326: the removal
DeleteWrite(p) ==
    /\ pc[p] = "cs2"
    /\ MapWrite(p, MapDelete(data, call[p].key))
    /\ res' = [res EXCEPT ![p] = Result("nil", Nil, <<>>, 0)]
    /\ pc' = [pc EXCEPT ![p] = ExitPc("Delete", "nil")]
    /\ UNCHANGED <<call, visited, snap, wmu, readers, hist, seqVars, libVars>>

\* Close and Clear: the map is replaced by an empty one
CloseCS(p) ==
    /\ pc[p] = "cs"
    /\ call[p].op \in {"Close", "Clear"}
    /\ MapWrite(p, EmptyMap)
    /\ res' = [res EXCEPT ![p] = Result("nil", Nil, <<>>, 0)]
    /\ pc' = [pc EXCEPT ![p] = ExitPc(call[p].op, "nil")]
    /\ UNCHANGED <<call, visited, snap, wmu, readers, hist, seqVars, libVars>>

\* List and ListKeys: one turn of the range loop over the map, or its end
ListStep(p) ==
    /\ pc[p] = "cs"
    /\ call[p].op \in {"List", "ListKeys"}
    /\ LET rest == DOMAIN data \ visited[p] IN
       IF rest = {}
       THEN /\ pc' = [pc EXCEPT ![p] = ExitPc(call[p].op, "nil")]
            /\ UNCHANGED <<res, visited>>
       ELSE \E k \in rest :
            LET u == UnmarshalAny(data[k])
                item == IF call[p].op = "List" THEN u.val ELSE [kind |-> "key", key |-> k]
            IN
            /\ visited' = [visited EXCEPT ![p] = @ \cup {k}]
            /\ IF ~ListAppends(k, call[p].key)
               THEN UNCHANGED <<res, pc>>
               ELSE IF call[p].op = "List" /\ u.err # "nil"
               THEN /\ res' = [res EXCEPT ![p] = Result(u.err, Nil, <<>>, 0)]
                    /\ pc' = [pc EXCEPT ![p] = ExitPc("List", u.err)]
               ELSE /\ res' = [res EXCEPT ![p].vals = Append(@, item)]
                    /\ UNCHANGED pc
    /\ UNCHANGED <<data, call, snap, wmu, readers, hist, seqVars, libVars>>

\* the deferred mu.Unlock: the readers it held back enter together
Unlock(p, track) ==
    /\ pc[p] = "unlock"
    /\ LockKind(call[p].op) = "W"
    /\ LET B == {q \in Procs : pc[q] = "blocked"} IN
       /\ wmu' = IF wmu = p THEN 0 ELSE wmu
       /\ readers' = readers \cup B
       /\ pc' = [q \in Procs |-> IF q = p THEN "ret"
                                 ELSE IF q \in B THEN "cs" ELSE pc[q]]
       /\ snap' = [q \in Procs |-> IF q \in B THEN Taken(data)
                                   ELSE IF q = p THEN NoSnap ELSE snap[q]]
    /\ hist' = IF track /\ call[p].op = "Set" /\ res[p].err = "nil"
               THEN MapSet(hist, call[p].key, Marshal(call[p].arg).bytes)
               ELSE hist
    /\ UNCHANGED <<data, call, res, visited, seqVars, libVars>>

\* the deferred mu.RUnlock
RUnlock(p) ==
    /\ pc[p] = "unlock"
    /\ LockKind(call[p].op) = "R"
    /\ readers' = readers \ {p}
    /\ pc' = [pc EXCEPT ![p] = "ret"]
    /\ snap' = [snap EXCEPT ![p] = IF KeepsSnap(call[p].op) THEN @ ELSE NoSnap]
    /\ UNCHANGED <<data, call, res, visited, wmu, hist, seqVars, libVars>>

\* the caller has taken the result
Return(p) ==
    /\ pc[p] = "ret"
    /\ pc' = [pc EXCEPT ![p] = "idle"]
    /\ call' = [call EXCEPT ![p] = NoOp]
    /\ res' = [res EXCEPT ![p] = NoRes]
    /\ visited' = [visited EXCEPT ![p] = {}]
    /\ snap' = [snap EXCEPT ![p] = NoSnap]
    /\ UNCHANGED <<data, wmu, readers, hist, seqVars, libVars>>

ConcNext ==
    \E p \in Procs :
        \/ \E c \in Calls : Invoke(p, c)
        \/ Lock(p)
        \/ LockEnter(p)
        \/ RLock(p)
        \/ SetCS(p)
        \/ ReadCS(p)
        \/ DeleteCheck(p)
        \/ DeleteWrite(p)
        \/ CloseCS(p)
        \/ ListStep(p)
        \/ Unlock(p, FALSE)
        \/ RUnlock(p)
        \/ Return(p)

ConcSpec == Init /\ [][ConcNext]_vars

\* the result a call returns when it acts on the map d in one step
ResultMatches(c, r, d) ==
    CASE c.op = "Set" -> r.err = SetOp(d, c.key, c.arg).err
      [] c.op = "Get" -> r.err = GetOp(d, c.key).err /\ r.val = GetOp(d, c.key).val
      [] c.op = "GetTyped" ->
            /\ r.err = GetTypedOp(d, c.key, c.arg.s).err
            /\ r.val = GetTypedOp(d, c.key, c.arg.s).val
      [] c.op = "List" -> r.err = "nil" /\ r.vals \in ListOp(d, c.key)
      [] c.op = "ListKeys" ->
            /\ r.err = "nil"
            /\ r.vals \in {MapSeq(o, LAMBDA k : [kind |-> "key", key |-> k]) :
                             o \in Perms(Matching(d, c.key))}
      [] c.op = "Delete" -> r.err = DeleteOp(d, c.key).err
      [] c.op \in {"Close", "Clear"} -> r.err = "nil"
      [] c.op = "Size" -> r.err = "nil" /\ r.n = SizeOp(d)
      [] c.op = "Exists" -> r.n = (IF ExistsOp(d, c.key) THEN 1 ELSE 0)

\* the map a call leaves when it acts on the map d in one step
Effect(c, d) ==
    CASE c.op = "Set" -> SetOp(d, c.key, c.arg).data
      [] c.op = "Delete" -> DeleteOp(d, c.key).data
      [] c.op \in {"Close", "Clear"} -> CloseOp(d).data
      [] OTHER -> d

\* the number of positions of a sequence that hold v
Count(s, v) == Cardinality({i \in 1..Len(s) : s[i] = v})

\* C6: List(p) returns the values of exactly the entries whose key starts
\* with p, one per entry, as the map was at one instant between the call
\* and its return (when List took the lock), whatever is written afterwards.
C6_ListIsPrefixSnapshot ==
    \A p \in Procs :
        (pc[p] = "ret" /\ call[p].op = "List") =>
            LET d == snap[p].data
                keys == {k \in DOMAIN d :
                           /\ Len(call[p].key) <= Len(k)
                           /\ \A i \in 1..Len(call[p].key) : k[i] = call[p].key[i]}
            IN /\ snap[p].taken
               /\ res[p].err = "nil"
               /\ Len(res[p].vals) = Cardinality(keys)
               /\ \A k \in keys :
                    Count(res[p].vals, UnmarshalAny(d[k]).val)
                      = Cardinality({j \in keys : UnmarshalAny(d[j]).val
                                                    = UnmarshalAny(d[k]).val})

C6_Witness ==
    \E p \in Procs :
        /\ pc[p] = "ret"
        /\ call[p].op = "List"
        /\ call[p].key = <<"a", "b">>
        /\ Len(res[p].vals) = 1
        /\ Cardinality(DOMAIN snap[p].data) = 2
        /\ data # snap[p].data

\* C8: every call takes effect at one instant between its invocation and
\* its return: from the moment it holds the lock no other call changes the
\* map, and its result and its effect are those of the same call applied
\* in one step to the map as it was at that moment.
C8_Linearizable ==
    \A p \in Procs :
        /\ pc[p] \in {"cs", "cs2", "unlock"} => snap[p].taken
        /\ pc[p] \in {"cs", "cs2"} => data = snap[p].data
        /\ pc[p] = "unlock" => data = Effect(call[p], snap[p].data)
        /\ pc[p] = "unlock" => ResultMatches(call[p], res[p], snap[p].data)
        /\ (pc[p] = "ret" /\ snap[p].taken) =>
              ResultMatches(call[p], res[p], snap[p].data)
        /\ (pc[p] = "ret" /\ ChecksKey(call[p].op) /\ call[p].key = EmptyKey) =>
              ResultMatches(call[p], res[p], data)

C8_Witness ==
    \E p, q \in Procs :
        /\ p # q
        /\ pc[p] = "ret" /\ call[p].op = "Get" /\ call[p].key = <<"a">>
        /\ res[p].val = Str("v1")
        /\ pc[q] = "ret" /\ call[q].op = "Set" /\ call[q].key = <<"a">>
        /\ call[q].arg = Str("v2") /\ res[q].err = "nil"
        /\ data[<<"a">>] = Marshal(Str("v2")).bytes

\* C9: while Set, Delete, Close or Clear is inside its critical section no
\* other operation is inside its own; read operations may be inside
\* together.
C9_WriterExcludesAll ==
    \A p, q \in Procs :
        (/\ p # q
         /\ pc[p] \in {"cs", "cs2", "unlock"}
         /\ call[p].op \in {"Set", "Delete", "Close", "Clear"})
        => pc[q] \notin {"cs", "cs2", "unlock"}

C9_Witness ==
    \E p, q \in Procs :
        /\ p # q
        /\ pc[p] = "cs" /\ call[p].op \in {"Get", "GetTyped", "Size", "Exists"}
        /\ pc[q] = "cs" /\ call[q].op \in {"List", "ListKeys"}
        /\ visited[q] # {}

\* C11: List deserializes no entry while it holds the shared lock: as long
\* as a List is among the readers of mu, it has decoded nothing and has met
\* no decoding error, so no writer ever waits for a List that is decoding.
C11_ListDecodesAfterRelease ==
    \A p \in Procs :
        (call[p].op = "List" /\ p \in readers) =>
            /\ res[p].vals = <<>>
            /\ res[p].err = "nil"

-----------------------------------------------------------------------------
(* FairSpec: ConcSpec under the scheduling the Go runtime gives. A         *)
(* goroutine that can take a step eventually takes it; sync.Mutex hands    *)
(* the lock to a writer that keeps waiting (starvation mode), hence the    *)
(* strong fairness of Lock.                                                *)

Step(p) ==
    \/ LockEnter(p)
    \/ RLock(p)
    \/ SetCS(p)
    \/ ReadCS(p)
    \/ DeleteCheck(p)
    \/ DeleteWrite(p)
    \/ CloseCS(p)
    \/ ListStep(p)
    \/ Unlock(p, FALSE)
    \/ RUnlock(p)
    \/ Return(p)

FairSpec ==
    /\ Init
    /\ [][ConcNext]_vars
    /\ \A p \in Procs : WF_vars(Step(p)) /\ SF_vars(Lock(p))

\* C10: every operation releases the lock on each of its exit paths: every
\* invoked operation eventually returns, and the lock is free whenever no
\* operation is in progress.
C10_ReleasesAndReturns ==
    /\ []((\A p \in Procs : pc[p] \in {"idle", "ret"}) => (wmu = 0 /\ readers = {}))
    /\ \A p \in Procs : (pc[p] \notin {"idle", "ret"}) ~> (pc[p] = "ret")

C10_Witness ==
    \E p, q \in Procs :
        /\ p # q
        /\ pc[p] = "ret" /\ call[p].op = "Delete" /\ res[p].err = "ErrKeyNotFound"
        /\ pc[q] = "ret" /\ call[q].op = "Set" /\ res[q].err = "MarshalError"
        /\ wmu = 0 /\ readers = {}

-----------------------------------------------------------------------------
(* WriterSpec: the goroutines of TestMemoryStore_Concurrency. Each writes  *)
(* only keys of its own (fmt.Sprintf("key-%d-%d", id, j)) and reads any.   *)

OwnKey(p) == <<"key", IdNames[p]>>

WriterCalls(p) ==
    [op : {"Set"}, key : {OwnKey(p)}, arg : {Str("v1"), Str("v2")}]
    \cup [op : {"Get"}, key : {OwnKey(q) : q \in Procs}, arg : {Nil}]
    \cup [op : {"List", "Size"}, key : {EmptyKey}, arg : {Nil}]

WriterNext ==
    \E p \in Procs :
        \/ \E c \in WriterCalls(p) : Invoke(p, c)
        \/ Lock(p)
        \/ LockEnter(p)
        \/ RLock(p)
        \/ SetCS(p)
        \/ ReadCS(p)
        \/ ListStep(p)
        \/ Unlock(p, TRUE)
        \/ RUnlock(p)
        \/ Return(p)

WriterSpec == Init /\ [][WriterNext]_vars

SetInProgress ==
    \E p \in Procs : call[p].op = "Set" /\ pc[p] \in {"lock", "wait", "cs", "cs2", "unlock"}

\* C7: when goroutines Set disjoint keys concurrently (others reading),
\* then once all the Sets have returned the map holds exactly what they
\* wrote: List("") returns one value per key written and Size their number.
C7_NoLostWrites ==
    ~SetInProgress =>
        /\ DOMAIN data = DOMAIN hist
        /\ \A k \in DOMAIN hist : data[k] = hist[k]
        /\ \A p \in Procs :
            (pc[p] = "ret" /\ snap[p].taken /\ snap[p].data = data) =>
                /\ call[p].op = "Size" => res[p].n = Cardinality(DOMAIN hist)
                /\ call[p].op = "List" =>
                      /\ Len(res[p].vals) = Cardinality(DOMAIN hist)
                      /\ \A k \in DOMAIN hist :
                            Count(res[p].vals, UnmarshalAny(hist[k]).val)
                              = Cardinality({j \in DOMAIN hist : hist[j] = hist[k]})

C7_Witness ==
    /\ ~SetInProgress
    /\ Cardinality(DOMAIN hist) >= 2
    /\ \E p \in Procs :
        /\ pc[p] = "ret"
        /\ call[p].op = "List"
        /\ snap[p].data = data
        /\ Len(res[p].vals) >= 2
        /\ res[p].vals[1] # res[p].vals[2]

-----------------------------------------------------------------------------
(* PostService.                                                            *)

validateTitle(title) ==
    IF RuneCountInString(title) < MinTitleLength THEN "ValidationError"
    ELSE IF RuneCountInString(title) > MaxTitleLength THEN "ValidationError"
    ELSE "nil"

validateContent(content) ==
    IF RuneCountInString(content) < MinContentLength THEN "ValidationError"
    ELSE IF RuneCountInString(content) > MaxContentLength THEN "ValidationError"
    ELSE "nil"

ValidateTitleOnly(req) == validateTitle(req.title)

\* CreatePostRequest.Validate and UpdatePostRequest.Validate
Validate(req) ==
    IF validateTitle(req.title) # "nil" THEN validateTitle(req.title)
    ELSE validateContent(req.content)

\* ids with a character outside [a-zA-Z0-9-]
MalformedIds == {"post/1"}
isValidPostID(id) == id \notin MalformedIds

validatePostID(id) ==
    IF id = "" THEN "ValidationError"
    ELSE IF ~isValidPostID(id) THEN "ValidationError"
    ELSE "nil"

\* domain.NewPost: a *Post
NewPost(id, title, content, now) == PostValue("PostPtr", id, title, content, now, now)

\* Post.Update
Update(post, title, content, now) ==
    [post EXCEPT !.title = title, !.content = content, !.updatedAt = now]

\* ListPosts, lines 131-136: the values whose dynamic type is domain.Post
ConvertToPosts(values) == SelectSeq(values, LAMBDA v : v.kind = "Post")

\* ListPosts, lines 139-141: any order sort.Slice may leave the posts in,
\* newest first, posts of equal CreatedAt in no particular order
SortNewestFirst(posts) ==
    {s \in {[i \in 1..Len(posts) |-> posts[o[i]]] : o \in Perms(1..Len(posts))} :
        \A i, j \in 1..Len(s) : i < j => s[i].createdAt >= s[j].createdAt}

StartIndexInclusive(posts, cursorObj) ==
    IF cursorObj.isNil THEN 0
    ELSE LET hits == {i \in 1..Len(posts) : posts[i].id = cursorObj.id} IN
         IF hits = {} THEN 0
         ELSE (CHOOSE i \in hits : \A j \in hits : i <= j) - 1

\* ListPosts, lines 144-159: the index the page starts at
StartIndex(posts, cursorObj) ==
    IF cursorObj.isNil THEN 0
    ELSE LET hits == {i \in 1..Len(posts) : posts[i].id = cursorObj.id} IN
         IF hits = {} THEN 0
         ELSE CHOOSE i \in hits : \A j \in hits : i <= j

PageOfCursorLimit(posts, params) ==
    LET dec == DecodeCursor(params.cursor) IN
    IF params.cursor # EmptyCursor /\ dec.err # "nil"
    THEN [err |-> "PaginationError", posts |-> <<>>, next |-> EmptyCursor]
    ELSE LET limit == IF params.cursor # EmptyCursor /\ dec.limit > 0
                      THEN dec.limit ELSE params.limit
             startIndex == IF params.cursor = EmptyCursor THEN 0
                           ELSE StartIndex(posts, dec)
             endIndex == IF startIndex + limit > Len(posts) THEN Len(posts)
                         ELSE startIndex + limit
         IN [err |-> "nil",
             posts |-> SubSeq(posts, startIndex + 1, endIndex),
             next |-> IF endIndex < Len(posts)
                      THEN CreateNextCursor(posts[endIndex].id, limit)
                      ELSE EmptyCursor]

\* ListPosts, lines 143-181, on the sorted posts
PageOf(posts, params) ==
    LET dec == DecodeCursor(params.cursor) IN
    IF params.cursor # EmptyCursor /\ dec.err # "nil"
    THEN [err |-> "PaginationError", posts |-> <<>>, next |-> EmptyCursor]
    ELSE LET startIndex == IF params.cursor = EmptyCursor THEN 0
                           ELSE StartIndex(posts, dec)
             endIndex == IF startIndex + params.limit > Len(posts) THEN Len(posts)
                         ELSE startIndex + params.limit
         IN [err |-> "nil",
             posts |-> SubSeq(posts, startIndex + 1, endIndex),
             next |-> IF endIndex < Len(posts)
                      THEN CreateNextCursor(posts[endIndex].id, params.limit)
                      ELSE EmptyCursor]

\* ListPosts, lines 116-181: every result the call may return when
\* s.store.List has returned values
ListPostsOn(values, cursor, limit) ==
    LET params == NewPaginationParams(cursor, limit) IN
    IF ValidatePaginationParams(params.cursor, params.limit) # "nil"
    THEN {[err |-> "ValidationError", posts |-> <<>>, next |-> EmptyCursor]}
    ELSE {PageOf(sorted, params) : sorted \in SortNewestFirst(ConvertToPosts(values))}

\* ListPosts: every result the call may return on the map d
ListPostsOp(d, cursor, limit) ==
    UNION {ListPostsOn(values, cursor, limit) : values \in ListOp(d, PostsPrefix)}

-----------------------------------------------------------------------------
(* Spec: PostService over a MemoryStore; CreatePost and UpdatePost run in   *)
(* three steps each.                                                       *)

Titles == {Text("", 0), Text("t1", 2), Text("t2", 2), Text("long", 201)}
Contents == {Text("", 0), Text("c1", 2)}
Requests == [title : Titles, content : Contents]
RequestIds == PostIds \cup {""} \cup MalformedIds
Limits == {0, 1, 1000}
ClientCursors ==
    {EmptyCursor, NotBase64, NotJSON}
    \cup {EncodeCursor([id |-> id, limit |-> 2]) : id \in PostIds}

\* the posts the store holds, as GetPost would return them
StoredPosts(d) ==
    {UnmarshalTyped(d[k], "Post").val : k \in Matching(d, PostsPrefix)}

Ongoing == trav.active /\ ~trav.done

\* a write to the post id while a client is between two pages
Disturb(id) ==
    IF Ongoing
    THEN [trav EXCEPT !.mutated = TRUE, !.stable = {x \in @ : x.id # id}]
    ELSE trav

Tick ==
    /\ clock < MaxClock
    /\ clock' = clock + 1
    /\ UNCHANGED <<data, last, pre, gone, trav, concVars, libVars>>

\* the goroutine whose CreatePost calls run among the other requests where
\* one CreatePost is in flight at a time
Creator == 2

\* CreatePost, lines 26-32: Validate, then generatePostID with its reading
\* of the clock; a call that fails here has made no store call and returns
CreateId(p, req) ==
    /\ pc[p] = "idle"
    /\ IF Validate(req) # "nil"
       THEN /\ last' = Done("CreatePost", EmptyKey, req, Validate(req), Nil, <<>>)
            /\ UNCHANGED <<pc, call>>
       ELSE /\ call' = [call EXCEPT ![p] =
                           [op |-> "CreatePost",
                            key |-> postKey(generatePostID(clock)), arg |-> req]]
            /\ pc' = [pc EXCEPT ![p] = "named"]
            /\ UNCHANGED last
    /\ UNCHANGED <<data, clock, pre, gone, trav, res,
                   visited, snap, wmu, readers, hist, libVars>>

\* CreatePost, line 35: NewPost with its own reading of the clock
CreateStamp(p) ==
    /\ pc[p] = "named"
    /\ res' = [res EXCEPT ![p] =
                  [NoRes EXCEPT !.val =
                      NewPost(call[p].key[Len(call[p].key)], call[p].arg.title,
                              call[p].arg.content, clock)]]
    /\ pc' = [pc EXCEPT ![p] = "made"]
    /\ UNCHANGED <<data, clock, last, pre, gone, trav, call,
                   visited, snap, wmu, readers, hist, libVars>>

\* CreatePost, lines 37-43: Set and return
CreateSet(p) ==
    /\ pc[p] = "made"
    /\ LET r == SetOp(data, call[p].key, res[p].val) IN
       /\ data' = r.data
       /\ gone' = IF r.err = "nil" THEN gone \ {call[p].key} ELSE gone
       /\ trav' = IF r.err = "nil" THEN Disturb(res[p].val.id) ELSE trav
       /\ last' = IF r.err # "nil"
                  THEN Done("CreatePost", call[p].key, call[p].arg, "StorageError", Nil, <<>>)
                  ELSE Done("CreatePost", call[p].key, call[p].arg, "nil", res[p].val, <<>>)
    /\ pc' = [pc EXCEPT ![p] = "idle"]
    /\ call' = [call EXCEPT ![p] = NoOp]
    /\ res' = [res EXCEPT ![p] = NoRes]
    /\ UNCHANGED <<clock, pre,
                   visited, snap, wmu, readers, hist, libVars>>

GetPost(id) ==
    /\ IF validatePostID(id) # "nil"
       THEN last' = Done("GetPost", <<id>>, Nil, validatePostID(id), Nil, <<>>)
       ELSE LET r == GetTypedOp(data, postKey(id), "Post") IN
            last' = Done("GetPost", postKey(id), Nil,
                         CASE r.err = "nil" -> "nil"
                           [] r.err = "ErrKeyNotFound" -> "PostNotFoundError"
                           [] OTHER -> "StorageError",
                         r.val, <<>>)
    /\ UNCHANGED <<data, clock, pre, gone, trav, concVars, libVars>>

\* the goroutine whose UpdatePost calls run among the other requests where
\* one UpdatePost is in flight at a time
Updater == 1

\* UpdatePost, lines 66-82: the validations and GetTyped; a call that
\* fails here has made at most this one store call and returns
UpdateGet(p, id, req) ==
    /\ pc[p] = "idle"
    /\ IF validatePostID(id) # "nil"
       THEN /\ last' = Done("UpdatePost", <<id>>, req, validatePostID(id), Nil, <<>>)
            /\ UNCHANGED <<pc, call, res>>
       ELSE IF Validate(req) # "nil"
       THEN /\ last' = Done("UpdatePost", postKey(id), req, Validate(req), Nil, <<>>)
            /\ UNCHANGED <<pc, call, res>>
       ELSE LET g == GetTypedOp(data, postKey(id), "Post") IN
            IF g.err # "nil"
            THEN /\ last' = Done("UpdatePost", postKey(id), req,
                                 IF g.err = "ErrKeyNotFound" THEN "PostNotFoundError"
                                 ELSE "StorageError", Nil, <<>>)
                 /\ UNCHANGED <<pc, call, res>>
            ELSE /\ call' = [call EXCEPT ![p] =
                                [op |-> "UpdatePost", key |-> postKey(id), arg |-> req]]
                 /\ res' = [res EXCEPT ![p] = [NoRes EXCEPT !.val = g.val]]
                 /\ pc' = [pc EXCEPT ![p] = "fetched"]
                 /\ UNCHANGED last
    /\ UNCHANGED <<data, clock, pre, gone, trav,
                   visited, snap, wmu, readers, hist, libVars>>

\* UpdatePost, line 85: Post.Update on the copy GetTyped filled in, with
\* the reading of the clock
UpdateStamp(p) ==
    /\ pc[p] = "fetched"
    /\ res' = [res EXCEPT ![p].val =
                  [Update(@, call[p].arg.title, call[p].arg.content, clock)
                      EXCEPT !.kind = "PostPtr"]]
    /\ pc' = [pc EXCEPT ![p] = "stamped"]
    /\ UNCHANGED <<data, clock, last, pre, gone, trav, call,
                   visited, snap, wmu, readers, hist, libVars>>

\* UpdatePost, lines 88-93: Set and return
UpdateSet(p) ==
    /\ pc[p] = "stamped"
    /\ LET r == SetOp(data, call[p].key, res[p].val) IN
       /\ data' = r.data
       /\ trav' = IF r.err = "nil" THEN Disturb(res[p].val.id) ELSE trav
       /\ last' = IF r.err # "nil"
                  THEN Done("UpdatePost", call[p].key, call[p].arg, "StorageError", Nil, <<>>)
                  ELSE Done("UpdatePost", call[p].key, call[p].arg, "nil", res[p].val, <<>>)
    /\ pc' = [pc EXCEPT ![p] = "idle"]
    /\ call' = [call EXCEPT ![p] = NoOp]
    /\ res' = [res EXCEPT ![p] = NoRes]
    /\ UNCHANGED <<clock, pre, gone,
                   visited, snap, wmu, readers, hist, libVars>>

DeletePost(id) ==
    IF validatePostID(id) # "nil"
    THEN /\ last' = Done("DeletePost", <<id>>, Nil, validatePostID(id), Nil, <<>>)
         /\ UNCHANGED <<data, clock, pre, gone, trav, concVars, libVars>>
    ELSE LET r == DeleteOp(data, postKey(id)) IN
         /\ data' = r.data
         /\ gone' = IF r.err = "nil" THEN gone \cup {postKey(id)} ELSE gone
         /\ trav' = IF r.err = "nil" THEN Disturb(id) ELSE trav
         /\ last' = Done("DeletePost", postKey(id), Nil,
                         CASE r.err = "nil" -> "nil"
                           [] r.err = "ErrKeyNotFound" -> "PostNotFoundError"
                           [] OTHER -> "StorageError",
                         Nil, <<>>)
         /\ UNCHANGED <<clock, pre, concVars, libVars>>

\* what a client that follows nextCursor has been given so far
Follow(cursor, limit, r) ==
    IF cursor = EmptyCursor
    THEN [active |-> r.err = "nil",
          done |-> r.err = "nil" /\ r.next = EmptyCursor,
          limit |-> limit, cursor |-> r.next, seen |-> r.posts,
          all |-> StoredPosts(data), stable |-> StoredPosts(data),
          mutated |-> FALSE, stale |-> FALSE]
    ELSE IF Ongoing /\ cursor = trav.cursor /\ limit = trav.limit
    THEN [trav EXCEPT !.active = r.err = "nil",
                      !.done = r.err = "nil" /\ r.next = EmptyCursor,
                      !.cursor = r.next,
                      !.seen = @ \o r.posts,
                      !.stale = @ \/ postKey(cursor.id) \notin DOMAIN data]
    ELSE trav

ListPostsConsuming(cursor, limit) ==
    \E r \in ListPostsOp(data, cursor, limit) :
        /\ last' = [Done("ListPosts", EmptyKey, [cursor |-> cursor, limit |-> limit],
                         r.err, Nil, r.posts) EXCEPT !.next = r.next]
        /\ trav' = Follow(cursor, limit, r)
        /\ data' = MapDelete(data, postKey(cursor.id))
        /\ UNCHANGED <<clock, pre, gone, concVars, libVars>>

ListPosts(cursor, limit) ==
    \E r \in ListPostsOp(data, cursor, limit) :
        /\ last' = [Done("ListPosts", EmptyKey, [cursor |-> cursor, limit |-> limit],
                         r.err, Nil, r.posts) EXCEPT !.next = r.next]
        /\ trav' = Follow(cursor, limit, r)
        /\ UNCHANGED <<data, clock, pre, gone, concVars, libVars>>

\* the requests of Spec: one valid and one invalid (WriteSpec has the
\* requests on both sides of every length bound)
SpecRequests ==
    {r \in Requests : r.title \in {Text("", 0), Text("t1", 2)} /\ r.content = Text("c1", 2)}

Next ==
    \/ Tick
    \/ \E req \in SpecRequests : CreateId(Creator, req)
    \/ CreateStamp(Creator)
    \/ CreateSet(Creator)
    \/ \E id \in RequestIds : GetPost(id)
    \/ \E id \in RequestIds, req \in SpecRequests : UpdateGet(Updater, id, req)
    \/ UpdateStamp(Updater)
    \/ UpdateSet(Updater)
    \/ \E id \in RequestIds : DeletePost(id)
    \/ \E c \in ClientCursors \cup {trav.cursor}, l \in Limits : ListPosts(c, l)

Spec == Init /\ [][Next]_vars

\* C1: a client that lists with an empty cursor and then follows nextCursor
\* until it is absent, the store not being written meanwhile, has been
\* given every stored post exactly once, newest first.
C1_PaginationCoverage ==
    (trav.active /\ trav.done /\ ~trav.mutated) =>
        /\ Range(trav.seen) = trav.all
        /\ Len(trav.seen) = Cardinality(trav.all)
        /\ \A i, j \in 1..Len(trav.seen) :
              i < j => trav.seen[i].createdAt >= trav.seen[j].createdAt

\* C2: ListPosts with a cursor naming a post that has been deleted returns
\* PaginationError.
C2_StaleCursorRejected ==
    (/\ last.op = "ListPosts"
     /\ last.arg.cursor.tok = "cursor"
     /\ postKey(last.arg.cursor.id) \in gone)
    => last.err = "PaginationError"

\* C3: when posts are created or deleted between the pages of a traversal,
\* the post named by each cursor still existing, every post that was there
\* unmodified throughout is returned exactly once and none twice.
C3_SurvivesMutations ==
    (trav.active /\ trav.done /\ ~trav.stale) =>
        /\ \A x \in trav.stable : Count(trav.seen, x) = 1
        /\ \A i, j \in 1..Len(trav.seen) :
              i # j => trav.seen[i].id # trav.seen[j].id

\* C18: ListPosts with a non-empty cursor that is not URL-safe base64, or
\* does not decode to a cursor record, returns PaginationError and no page;
\* DecodeCursor returns PaginationError for that token.
C18_MalformedCursorRejected ==
    (last.op = "ListPosts" /\ last.arg.cursor.tok \in {"notbase64", "notjson"}) =>
        /\ DecodeCursor(last.arg.cursor).err = "PaginationError"
        /\ last.err = "PaginationError"
        /\ last.vals = <<>>

\* C31: the view ListPosts sorts and slices holds one post for every value
\* store.List("posts:") returns, so with K posts stored it has K elements,
\* and a first page of limit 1000 returns all K of them.
C31_ViewHoldsEveryEntry ==
    /\ \A values \in ListOp(data, PostsPrefix) :
          /\ Len(values) = Cardinality(Matching(data, PostsPrefix))
          /\ Len(ConvertToPosts(values)) = Len(values)
    /\ (/\ last.op = "ListPosts"
        /\ last.err = "nil"
        /\ last.arg.cursor = EmptyCursor
        /\ last.arg.limit = 1000) =>
           Len(last.vals) = Cardinality(Matching(data, PostsPrefix))

\* a step that completes a ListPosts call
ListPostsReturns == last'.op = "ListPosts" /\ last' # last

\* C23: a ListPosts call leaves every entry of the store as it was, and
\* what it returns is determined by the store's contents, the cursor and
\* the limit alone: nothing of the calls made before enters into it.
C23_ReadOnly ==
    [][ListPostsReturns =>
          /\ data' = data
          /\ ListPostsOp(data, last'.arg.cursor, last'.arg.limit)
                 = {[err |-> last'.err, posts |-> last'.vals, next |-> last'.next]}]_vars

\* a ListPosts with a cursor, answered over a store that holds posts
C23_Witness ==
    /\ last.op = "ListPosts"
    /\ last.arg.cursor.tok = "cursor"
    /\ last.err = "nil"
    /\ Cardinality(DOMAIN data) = MaxClock

-----------------------------------------------------------------------------
(* PageSpec: ListPosts over any domain.Store. PostService holds the store  *)
(* as the interface domain.Store; here the values its List returns are     *)
(* domain.Post values, so that the slicing of ListPosts has posts to work  *)
(* on.                                                                     *)

PageLimits ==
    ((MinLimit - LimitSlack - 2)..(MinLimit + LimitSlack))
    \cup ((DefaultLimit - 1)..(DefaultLimit + 1))
    \cup ((MaxLimit - LimitSlack)..(MaxLimit + LimitSlack))
    \cup {1000}

\* n posts, the i-th created at time i
ViewOf(n) ==
    [i \in 1..n |-> PostValue("Post", IdNames[i], Text("t1", 2), Text("c1", 2), i, i)]

\* n posts created within one reading of the clock: CreatePost reads
\* time.Now() once for the id and once more for CreatedAt, so posts of
\* different ids can carry the same CreatedAt
TiedViewOf(n) ==
    [i \in 1..n |-> PostValue("Post", IdNames[i], Text("t1", 2), Text("c1", 2), 1, 1)]

\* what a domain.Store may hand to ListPosts as the result of List. Of the
\* stores of the repository, MemoryStore returns the stored posts as the
\* maps they decode to, and pkg/store Memory and the mockStore of the tests
\* as the pointers CreatePost stored; a store that keeps posts by value
\* returns them as domain.Post values
Views ==
    {ViewOf(n) : n \in 0..MaxView}
    \cup {TiedViewOf(n) : n \in 2..MaxView}
    \cup {[i \in 1..n |-> UnmarshalAny(Marshal(ViewOf(n)[i]).bytes).val] :
             n \in 1..MaxView}
    \cup {[i \in 1..n |-> [ViewOf(n)[i] EXCEPT !.kind = "PostPtr"]] :
             n \in 1..MaxView}

\* the limits a client can write into a cursor token
CursorLimits == {-5, 0, 2, 1000}

PageCursors ==
    {EmptyCursor, NotBase64}
    \cup {EncodeCursor([id |-> IdNames[i], limit |-> n]) :
             i \in 1..(MaxView + 1), n \in CursorLimits}

ListPostsOver(values, cursor, limit) ==
    \E r \in ListPostsOn(values, cursor, limit) :
        /\ last' = [Done("ListPostsOver", EmptyKey,
                         [cursor |-> cursor, limit |-> limit,
                          eff |-> NewPaginationParams(cursor, limit).limit,
                          view |-> ConvertToPosts(values)],
                         r.err, Nil, r.posts) EXCEPT !.next = r.next]
        /\ UNCHANGED <<data, clock, pre, gone, trav, concVars, libVars>>

PageNext ==
    \E values \in Views, c \in PageCursors, l \in PageLimits :
        ListPostsOver(values, c, l)

PageSpec == Init /\ [][PageNext]_vars

\* C19: a requested limit of 0 runs as the default 20, a limit above 100 as
\* 100; for every requested limit the limit the request runs with lies in
\* 1..100, the page is no longer than it, and ListPosts rejects no request
\* whose cursor is well formed.
C19_LimitClamped ==
    last.op = "ListPostsOver" =>
        /\ last.arg.eff \in MinLimit..MaxLimit
        /\ last.arg.limit = 0 => last.arg.eff = DefaultLimit
        /\ last.arg.limit > MaxLimit => last.arg.eff = MaxLimit
        /\ last.arg.cursor.tok \in {"empty", "cursor"} => last.err = "nil"
        /\ Len(last.vals) <= last.arg.eff

C19_Witness ==
    /\ last.op = "ListPostsOver"
    /\ last.arg.limit = 1000
    /\ last.arg.eff = MaxLimit
    /\ last.err = "nil"
    /\ Len(last.vals) = MaxView

\* C20: a request with a negative limit runs as limit 1: its page holds at
\* most one post.
C20_NegativeLimitIsOne ==
    (last.op = "ListPostsOver" /\ last.arg.limit < 0) =>
        /\ last.arg.eff = MinLimit
        /\ Len(last.vals) <= 1

\* the place of an id in the ascending order of ids
IdRank(id) == CHOOSE i \in 1..Len(IdNames) : IdNames[i] = id

\* p comes before q in the order of the pagination view: newer first,
\* posts of equal createdAt by ascending id
Before(p, q) ==
    \/ p.createdAt > q.createdAt
    \/ p.createdAt = q.createdAt /\ IdRank(p.id) < IdRank(q.id)

\* the posts of the store in the order of the pagination view
TotalOrder(d) ==
    CHOOSE s \in Perms(StoredPosts(d)) :
        \A i, j \in 1..Len(s) : i < j => Before(s[i], s[j])

\* two of the stored posts share their createdAt
HoldsTie(d) ==
    \E p, q \in StoredPosts(d) : p # q /\ p.createdAt = q.createdAt

SortedViews(values) ==
    {s \in {[i \in 1..Len(values) |-> values[o[i]]] : o \in Perms(1..Len(values))} :
        \A i, j \in 1..Len(s) : i < j => s[i].createdAt >= s[j].createdAt}

\* the page is the slice of sorted that starts after start posts and holds
\* eff posts, or fewer when the view ends first
IsSlice(page, sorted, start, eff) ==
    /\ Len(page) = (IF Len(sorted) - start < eff THEN Len(sorted) - start ELSE eff)
    /\ page = SubSeq(sorted, start + 1, start + Len(page))

\* C22: the page is a slice of the sorted view; nextCursor is present
\* exactly when the slice ends before the end of the view, and then it
\* decodes to the id of the last post of the page and to the limit the page
\* was cut with; when the slice reaches the end of the view it is empty.
C22_NextCursor ==
    (last.op = "ListPostsOver" /\ last.err = "nil") =>
        \E sorted \in SortedViews(last.arg.view), start \in 0..Len(last.arg.view) :
            /\ IsSlice(last.vals, sorted, start, last.arg.eff)
            /\ (last.next # EmptyCursor) <=> (start + Len(last.vals) < Len(sorted))
            /\ (last.next # EmptyCursor) =>
                   /\ DecodeCursor(last.next).err = "nil"
                   /\ DecodeCursor(last.next).id = last.vals[Len(last.vals)].id
                   /\ DecodeCursor(last.next).limit = last.arg.eff

\* a page of one post cut out of a longer view, with a cursor naming it
C22_Witness ==
    /\ last.op = "ListPostsOver"
    /\ last.err = "nil"
    /\ Len(last.arg.view) = MaxView
    /\ Len(last.vals) = 1
    /\ last.arg.eff = 1
    /\ last.next # EmptyCursor
    /\ DecodeCursor(last.next).id = last.vals[1].id

\* C27: whatever limit a cursor token carries, in or out of 1..100, the
\* page of a request made with it is cut with a limit in 1..100, the one
\* the normalization rule (default 20, range 1..100) gives: it holds no
\* more posts than that, and fewer only when the view ends first.
C27_CursorLimitClamped ==
    (last.op = "ListPostsOver" /\ last.err = "nil" /\ last.arg.cursor.tok = "cursor") =>
        /\ last.arg.eff \in MinLimit..MaxLimit
        /\ Len(last.vals) <= MaxLimit
        /\ \E sorted \in SortedViews(last.arg.view), start \in 0..Len(last.arg.view) :
               IsSlice(last.vals, sorted, start, last.arg.eff)

\* a token that carries the limit 1000, used with limit 1 on a view that
\* has more than one post to give
C27_Witness ==
    /\ last.op = "ListPostsOver"
    /\ last.err = "nil"
    /\ last.arg.cursor.tok = "cursor"
    /\ last.arg.cursor.limit = 1000
    /\ last.arg.eff = 1
    /\ Len(last.vals) = 1
    /\ last.next # EmptyCursor

\* the number of posts of sorted up to and including the post of the id
IndexPast(sorted, id) == CHOOSE i \in 1..Len(sorted) : sorted[i].id = id

\* C32: for an empty cursor and for a cursor naming a post of the view, the
\* page is the contiguous slice of the sorted view that starts at the
\* first post, or just behind the named post, and holds limit posts or
\* those left: no more than limit posts, no post twice, and neither the
\* named post nor a post sorted before it.
C32_ContiguousSlice ==
    (/\ last.op = "ListPostsOver"
     /\ last.err = "nil"
     /\ \/ last.arg.cursor = EmptyCursor
        \/ \E v \in Range(last.arg.view) : v.id = last.arg.cursor.id) =>
        \E sorted \in SortedViews(last.arg.view) :
            LET start == IF last.arg.cursor = EmptyCursor THEN 0
                         ELSE IndexPast(sorted, last.arg.cursor.id)
            IN /\ IsSlice(last.vals, sorted, start, last.arg.eff)
               /\ Len(last.vals) <= last.arg.eff
               /\ \A i, j \in 1..Len(last.vals) :
                      i # j => last.vals[i].id # last.vals[j].id
               /\ \A i \in 1..Len(last.vals), j \in 1..start :
                      last.vals[i].id # sorted[j].id

\* the page behind the newest post of a full view, cut at one post
C32_Witness ==
    /\ last.op = "ListPostsOver"
    /\ last.err = "nil"
    /\ last.arg.view = ViewOf(MaxView)
    /\ last.arg.cursor.tok = "cursor"
    /\ last.arg.cursor.id = IdNames[MaxView]
    /\ last.arg.limit = 1
    /\ Len(last.vals) = 1
    /\ last.vals[1].id = IdNames[MaxView - 1]

-----------------------------------------------------------------------------
(* pkg/store Memory: a map of the values themselves.                       *)

\* List, line 68: the test that selects an entry
MemHasPrefix(k, prefix) ==
    Len(prefix) = 0 \/ (Len(k) >= Len(prefix) /\ SubSeq(k, 1, Len(prefix)) = prefix)

MemSetOp(m, key, value) == [data |-> MapSet(m, key, value), err |-> "nil"]

MemGetOp(m, key) ==
    IF key \notin DOMAIN m THEN [err |-> "ErrNotFound", val |-> Nil]
    ELSE [err |-> "nil", val |-> m[key]]

MemListOp(m, prefix) ==
    {MapSeq(order, LAMBDA k : m[k]) :
        order \in Perms({k \in DOMAIN m : MemHasPrefix(k, prefix)})}

MemDeleteOp(m, key) ==
    IF key \notin DOMAIN m THEN [data |-> m, err |-> "ErrNotFound"]
    ELSE [data |-> MapDelete(m, key), err |-> "nil"]

MemCloseOp(m) == [data |-> m, err |-> "nil"]

-----------------------------------------------------------------------------
(* BoundarySpec: one caller using both stores of the repository,           *)
(* infrastructure.MemoryStore and pkg/store Memory, with values of its     *)
(* own: a number, and a pointer to an object it goes on changing.          *)

Stores == {"MemoryStore", "Memory"}
BoundaryKeys == {<<"k1">>, <<"k2">>}
BoundaryPrefixes == {<<>>, <<"k1">>}
\* the caller keeps its object under k1 and a number under k2
BoundaryValues(key) == IF key = <<"k1">> THEN {Ref("o1")} ELSE {IntVal(42)}
BoundaryShapes == {"Post", "int"}

StKey(st, key) == <<st>> \o key

\* sent, for the entries a Close has discarded
Discarded == [kind |-> "discarded"]

\* what a value is when it is encoded or read: a pointer gives its object
Load(h, v) == IF v.kind = "ref" THEN h[v.addr] ELSE v

StoreMap(st) == IF st = "MemoryStore" THEN data ELSE mem

Called(st, op, key, arg, err, val, vals) ==
    [st |-> st, op |-> op, key |-> key, arg |-> arg, err |-> err, val |-> val,
     vals |-> vals, next |-> EmptyCursor,
     had |-> StKey(st, key) \in DOMAIN sent]

CallSet(st, key, v) ==
    LET r == IF st = "MemoryStore" THEN SetOp(data, key, Load(heap, v))
             ELSE MemSetOp(mem, key, v)
    IN /\ data' = IF st = "MemoryStore" THEN r.data ELSE data
       /\ mem' = IF st = "Memory" THEN r.data ELSE mem
       /\ pre' = StoreMap(st)
       /\ sent' = IF r.err = "nil" THEN MapSet(sent, StKey(st, key), Load(heap, v))
                  ELSE sent
       /\ gone' = IF r.err = "nil" THEN gone \ {StKey(st, key)} ELSE gone
       /\ last' = Called(st, "Set", key, v, r.err, Nil, <<>>)
       /\ UNCHANGED <<heap, clock, trav, concVars, metrics>>

\* Get: MemoryStore hands out a newly decoded value, Memory the stored one
CallGet(st, key) ==
    LET g == IF st = "MemoryStore" THEN GetOp(data, key) ELSE MemGetOp(mem, key)
        fresh == st = "MemoryStore" /\ g.err = "nil" /\ g.val.kind = "map"
    IN /\ heap' = IF fresh THEN [heap EXCEPT !["r"] = g.val] ELSE heap
       /\ pre' = StoreMap(st)
       /\ last' = Called(st, "Get", key, Nil, g.err,
                         IF fresh THEN Ref("r") ELSE g.val, <<>>)
       /\ UNCHANGED <<data, mem, sent, gone, clock, trav, concVars, metrics>>

\* GetTyped fills the object the caller points it to
CallGetTyped(key, shape) ==
    LET g == GetTypedOp(data, key, shape)
        fresh == g.err = "nil" /\ g.val.kind = "Post"
    IN /\ heap' = IF fresh THEN [heap EXCEPT !["r"] = g.val] ELSE heap
       /\ pre' = data
       /\ last' = Called("MemoryStore", "GetTyped", key, shape, g.err,
                         IF fresh THEN Ref("r") ELSE g.val, <<>>)
       /\ UNCHANGED <<data, mem, sent, gone, clock, trav, concVars, metrics>>

CallList(st, prefix) ==
    \E values \in (IF st = "MemoryStore" THEN ListOp(data, prefix)
                   ELSE MemListOp(mem, prefix)) :
        /\ pre' = StoreMap(st)
        /\ last' = Called(st, "List", prefix, Nil, "nil", Nil, values)
        /\ UNCHANGED <<data, mem, heap, sent, gone, clock, trav, concVars, metrics>>

CallDelete(st, key) ==
    LET r == IF st = "MemoryStore" THEN DeleteOp(data, key) ELSE MemDeleteOp(mem, key)
    IN /\ data' = IF st = "MemoryStore" THEN r.data ELSE data
       /\ mem' = IF st = "Memory" THEN r.data ELSE mem
       /\ pre' = StoreMap(st)
       /\ sent' = IF r.err = "nil"
                  THEN [x \in DOMAIN sent \ {StKey(st, key)} |-> sent[x]]
                  ELSE sent
       /\ gone' = IF r.err = "nil" THEN gone \cup {StKey(st, key)} ELSE gone
       /\ last' = Called(st, "Delete", key, Nil, r.err, Nil, <<>>)
       /\ UNCHANGED <<heap, clock, trav, concVars, metrics>>

CallClose(st) ==
    LET r == IF st = "MemoryStore" THEN CloseOp(data) ELSE MemCloseOp(mem)
    IN /\ data' = IF st = "MemoryStore" THEN r.data ELSE data
       /\ mem' = IF st = "Memory" THEN r.data ELSE mem
       /\ pre' = StoreMap(st)
       /\ sent' = [x \in DOMAIN sent |-> IF x[1] = st THEN Discarded ELSE sent[x]]
       /\ last' = Called(st, "Close", EmptyKey, Nil, r.err, Nil, <<>>)
       /\ UNCHANGED <<heap, gone, clock, trav, concVars, metrics>>

\* the caller assigns a field of an object it holds
Mutate(a, title) ==
    /\ heap[a] # Nil
    /\ heap[a].title # title
    /\ heap' = [heap EXCEPT ![a].title = title]
    /\ last' = Called("caller", "Mutate", <<a>>, Nil, "nil", Nil, <<>>)
    /\ UNCHANGED <<data, mem, pre, sent, gone, clock, trav, concVars, metrics>>

BoundaryNext ==
    \/ \E st \in Stores, k \in BoundaryKeys :
          \E v \in BoundaryValues(k) : CallSet(st, k, v)
    \/ \E st \in Stores, k \in BoundaryKeys : CallGet(st, k)
    \/ \E k \in BoundaryKeys, sh \in BoundaryShapes : CallGetTyped(k, sh)
    \/ \E st \in Stores, p \in BoundaryPrefixes : CallList(st, p)
    \/ \E st \in Stores, k \in BoundaryKeys : CallDelete(st, k)
    \/ \E st \in Stores : CallClose(st)
    \/ \E a \in DOMAIN heap, t \in {Text("t1", 2), Text("t2", 2)} : Mutate(a, t)

BoundarySpec == Init /\ [][BoundaryNext]_vars

\* C12: after any Close, the first or a repeated one, of either store, Close
\* has returned no error and the store holds no entry.
C12_CloseEmpties ==
    last.op = "Close" =>
        /\ last.err = "nil"
        /\ StoreMap(last.st) = EmptyMap

\* the shape GetTyped has to be given for a value
ShapeOf(v) == IF IsPostKind(v) THEN "Post" ELSE v.kind

\* the same fields, whether held as a struct or behind a pointer
SameValue(v, w) == [v EXCEPT !.kind = ShapeOf(v)] = [w EXCEPT !.kind = ShapeOf(w)]

\* got is v as JSON sees it: a number of the same value whether int or
\* float64, the same string, the same bool, for a post a map of its five
\* members with each time as the text of its instant
SameJSON(got, v) ==
    CASE v.kind \in {"int", "float64"} ->
            got.kind \in {"int", "float64"} /\ got.hi = v.hi /\ got.n = v.n
      [] v.kind \in {"string", "bool"} -> got = v
      [] IsPostKind(v) ->
            /\ got.kind = "map"
            /\ got.id = v.id /\ got.title = v.title /\ got.content = v.content
            /\ got.createdAt = Str([rfc3339 |-> v.createdAt])
            /\ got.updatedAt = Str([rfc3339 |-> v.updatedAt])
      [] v.kind = "struct" ->
            /\ got.kind = "anymap"
            /\ DOMAIN got.elems = DOMAIN v.elems
            /\ \A m \in DOMAIN v.elems :
                  IF v.elems[m].kind = "int"
                  THEN got.elems[m].hi = v.elems[m].hi /\ got.elems[m].n = v.elems[m].n
                  ELSE got.elems[m] = v.elems[m]

\* in StoreSpec: the step after a Set that succeeded is a Get or GetTyped
\* of the same key
ReadsBack ==
    /\ last.op = "Set" /\ last.err = "nil"
    /\ last'.op \in {"Get", "GetTyped"}
    /\ last'.key = last.key

\* C13: on MemoryStore, a Get that follows Set(k, v) returns a value equal
\* to v as JSON sees values, and a GetTyped with the shape of v fills its
\* target with v itself.
C13_RoundTrip ==
    [][ReadsBack =>
          /\ last'.op = "Get" =>
                /\ last'.err = "nil"
                /\ SameJSON(last'.val, last.arg)
          /\ (last'.op = "GetTyped" /\ last'.arg = Str(ShapeOf(last.arg))) =>
                /\ last'.err = "nil"
                /\ SameValue(last'.val, last.arg)]_vars

NotFoundOf(st) == IF st = "MemoryStore" THEN "ErrKeyNotFound" ELSE "ErrNotFound"

\* C14: Get, GetTyped and Delete of a non-empty key that was never set, or
\* was deleted since it was last set, fail with the not-found value of the
\* store and leave the store as it was.
C14_NotFoundSymmetry ==
    (last.op \in {"Get", "GetTyped", "Delete"} /\ last.key # EmptyKey /\ ~last.had) =>
        /\ last.err = NotFoundOf(last.st)
        /\ StoreMap(last.st) = pre

C14_Witness ==
    /\ last.op = "Delete"
    /\ ~last.had
    /\ StKey(last.st, last.key) \in gone
    /\ last.err = NotFoundOf(last.st)
    /\ pre # EmptyMap

\* what a store holds for a key, encoded
Encoded(st, key) ==
    IF st = "MemoryStore" THEN data[key] ELSE Marshal(Load(heap, mem[key])).bytes

\* C16: whatever the caller does afterwards to the object it passed to Set,
\* or to a value Get or List returned, each store goes on holding, and Get
\* returns, the value as it was when Set was called.
C16_BoundaryIsolation ==
    /\ \A st \in Stores, k \in BoundaryKeys :
          (StKey(st, k) \in DOMAIN sent /\ sent[StKey(st, k)] # Discarded) =>
              /\ k \in DOMAIN StoreMap(st)
              /\ Encoded(st, k) = Marshal(sent[StKey(st, k)]).bytes
    /\ (/\ last.op = "Get"
        /\ last.had
        /\ sent[StKey(last.st, last.key)] # Discarded) =>
          Marshal(Load(heap, last.val)).bytes
            = Marshal(sent[StKey(last.st, last.key)]).bytes

-----------------------------------------------------------------------------
(* CreateSpec: goroutines that call CreatePost at the same time. Between   *)
(* generatePostID, NewPost and the Set of one CreatePost the clock can     *)
(* advance and other requests can run.                                     *)

CreateNext ==
    \/ Tick
    \/ \E p \in Procs, req \in SpecRequests : CreateId(p, req)
    \/ \E p \in Procs : CreateStamp(p)
    \/ \E p \in Procs : CreateSet(p)
    \/ \E id \in PostIds : GetPost(id)

CreateSpec == Init /\ [][CreateNext]_vars

\* C35: every successful CreatePost adds exactly one new post, under a key
\* that no post of the store uses; no CreatePost overwrites a post created
\* by another call, calls issued at the same clock reading included.
C35_CreateAddsNewKey ==
    [][(last'.op = "CreatePost" /\ last'.err = "nil" /\ last' # last) =>
          /\ last'.key \notin DOMAIN data
          /\ Cardinality(DOMAIN data') = Cardinality(DOMAIN data) + 1]_vars

-----------------------------------------------------------------------------
(* UpdateSpec: goroutines that call UpdatePost at the same time. The store *)
(* calls are atomic (they hold the lock); between the GetTyped, the        *)
(* Post.Update and the Set of one UpdatePost other requests can run.       *)

ValidRequests == {r \in Requests : Validate(r) = "nil"}

\* a CreatePost for the UpdatePost calls to follow: it arrives while the
\* store is empty
CreateFirst(p, req) == data = EmptyMap /\ CreateId(p, req)

UpdateNext ==
    \/ Tick
    \/ \E p \in Procs, req \in ValidRequests : CreateFirst(p, req)
    \/ \E p \in Procs : CreateStamp(p)
    \/ \E p \in Procs : CreateSet(p)
    \/ \E p \in Procs, id \in RequestIds, req \in Requests : UpdateGet(p, id, req)
    \/ \E p \in Procs : UpdateStamp(p)
    \/ \E p \in Procs : UpdateSet(p)

UpdateSpec == Init /\ [][UpdateNext]_vars

\* a step in which an UpdatePost stores its version of the post
UpdateStores == \E p \in Procs : pc[p] = "stamped" /\ pc'[p] = "idle"

\* the post stored under key k of the map d
StoredPost(d, k) == UnmarshalTyped(d[k], "Post").val

\* C24: whenever an UpdatePost stores a post, in whatever order the steps
\* of concurrent UpdatePost calls fall, the stored post keeps its id and
\* its createdAt, and its updatedAt is not earlier than that of the version
\* it replaces.
C24_UpdateMonotone ==
    [][UpdateStores =>
          \A k \in DOMAIN data \cap DOMAIN data' :
              /\ StoredPost(data', k).id = StoredPost(data, k).id
              /\ StoredPost(data', k).createdAt = StoredPost(data, k).createdAt
              /\ StoredPost(data', k).updatedAt >= StoredPost(data, k).updatedAt]_vars

-----------------------------------------------------------------------------
(* DecodeSpec: PostService.GetPost over a MemoryStore that other callers   *)
(* write too, so that a key of a post can hold a payload that is no post.  *)

DecodeNext ==
    \/ StoreNext
    \/ \E id \in RequestIds : GetPost(id)

DecodeSpec == Init /\ [][DecodeNext]_vars

\* the kinds of JSON a target of the shape can be filled from: a struct or
\* a map from an object, an any from everything, each target from null
JSONOf(shape) ==
    CASE shape \in {"Post", "anymap"} -> {"object", "members", "null"}
      [] shape = "any" ->
            {"string", "number", "bool", "array", "object", "members", "null"}
      [] shape = "anyslice" -> {"array", "null"}
      [] shape \in {"int", "float64"} -> {"number", "null"}
      [] OTHER -> {shape, "null"}

\* C25: GetTyped on a key that holds a payload its target cannot be filled
\* from returns the decoding error, which is neither nil nor the not-found
\* error, and leaves the map as it was; GetPost on such a key returns
\* StorageError, not PostNotFoundError.
C25_DecodeErrorDistinct ==
    /\ (/\ last.op = "GetTyped"
        /\ last.key \in DOMAIN pre
        /\ pre[last.key].j \notin JSONOf(last.arg.s)) =>
           /\ last.err = "UnmarshalError"
           /\ last.err # "ErrKeyNotFound"
           /\ data = pre
    /\ (/\ last.op = "GetPost"
        /\ last.key \in DOMAIN data
        /\ data[last.key].j \notin JSONOf("Post")) =>
           /\ last.err = "StorageError"
           /\ last.err # "PostNotFoundError"

\* GetPost of post-1 while the key of post-1 holds a string
C25_Witness ==
    /\ last.op = "GetPost"
    /\ last.key = postKey("post-1")
    /\ last.key \in DOMAIN data
    /\ data[last.key].j = "string"
    /\ last.err = "StorageError"

-----------------------------------------------------------------------------
(* HandlerSpec: the errors of PostService, and any other error, handed to  *)
(* ErrorHandlerMiddleware.HandleError. An error is named by its dynamic    *)
(* type; PostService returns its errors as pointers, the form the type     *)
(* switch of mapErrorToResponse tests for.                                 *)

\* the errors HandleError can be given: the five domain error types and
\* errors of other types (the store's sentinel and wrapped errors)
ErrorValues ==
    {"PostNotFoundError", "InvalidPostDataError", "ValidationError",
     "PaginationError", "StorageError",
     "ErrKeyNotFound", "InvalidKey", "MarshalError", "UnmarshalError"}

mapErrorToResponseNoPagination(err) ==
    CASE err = "PostNotFoundError" -> [status |-> 404, code |-> "POST_NOT_FOUND"]
      [] err = "InvalidPostDataError" -> [status |-> 400, code |-> "INVALID_POST_DATA"]
      [] err = "ValidationError" -> [status |-> 400, code |-> "VALIDATION_ERROR"]
      [] err = "StorageError" -> [status |-> 500, code |-> "STORAGE_ERROR"]
      [] OTHER -> [status |-> 500, code |-> "INTERNAL_ERROR"]

\* mapErrorToResponse: the status code and the code of the response body
mapErrorToResponse(err) ==
    CASE err = "PostNotFoundError" -> [status |-> 404, code |-> "POST_NOT_FOUND"]
      [] err = "InvalidPostDataError" -> [status |-> 400, code |-> "INVALID_POST_DATA"]
      [] err = "ValidationError" -> [status |-> 400, code |-> "VALIDATION_ERROR"]
      [] err = "PaginationError" -> [status |-> 400, code |-> "PAGINATION_ERROR"]
      [] err = "StorageError" -> [status |-> 500, code |-> "STORAGE_ERROR"]
      [] OTHER -> [status |-> 500, code |-> "INTERNAL_ERROR"]

\* HandleError: the response written for err
HandleError(err) ==
    /\ last' = Done("HandleError", EmptyKey, Nil, err,
                    [kind |-> "response",
                     status |-> mapErrorToResponse(err).status,
                     code |-> mapErrorToResponse(err).code], <<>>)
    /\ UNCHANGED <<data, clock, pre, gone, trav, concVars, libVars>>

HandlerNext ==
    \/ \E v \in StoreValues : Set(postKey("post-1"), v)
    \/ \E id \in RequestIds : GetPost(id)
    \/ \E id \in RequestIds, req \in Requests : UpdateGet(Updater, id, req)
    \/ UpdateStamp(Updater)
    \/ UpdateSet(Updater)
    \/ \E id \in RequestIds : DeletePost(id)
    \/ \E err \in ErrorValues : HandleError(err)

HandlerSpec == Init /\ [][HandlerNext]_vars

\* a step in which a GetPost, UpdatePost or DeletePost whose id and request
\* are valid makes its GetTyped or Delete call for a key the store does not
\* hold, and returns (the Set of an UpdatePost is not such a call)
NotFoundReachesService ==
    /\ last'.op \in {"GetPost", "UpdatePost", "DeletePost"}
    /\ last' # last
    /\ \E id \in PostIds : last'.key = postKey(id)
    /\ last'.op = "UpdatePost" => (Validate(last'.arg) = "nil" /\ pc' = pc)
    /\ last'.key \notin DOMAIN data

\* C26: HandleError answers PostNotFoundError with 404, ValidationError,
\* PaginationError and InvalidPostDataError with 400, StorageError with 500
\* and every other error with 500 and the code INTERNAL_ERROR; GetPost,
\* UpdatePost and DeletePost on a key the store does not hold return
\* PostNotFoundError, which is answered with 404.
C26_ErrorMapping ==
    [][/\ last'.op = "HandleError" =>
            /\ last'.err = "PostNotFoundError" => last'.val.status = 404
            /\ last'.err \in {"ValidationError", "PaginationError",
                               "InvalidPostDataError"} => last'.val.status = 400
            /\ last'.err = "StorageError" => last'.val.status = 500
            /\ last'.err \notin {"PostNotFoundError", "ValidationError",
                                  "PaginationError", "InvalidPostDataError",
                                  "StorageError"} =>
                   /\ last'.val.status = 500
                   /\ last'.val.code = "INTERNAL_ERROR"
       /\ NotFoundReachesService =>
            /\ last'.err = "PostNotFoundError"
            /\ mapErrorToResponse(last'.err).status = 404]_vars

\* DeletePost of a post the store no longer holds, answered 404
C26_Witness ==
    /\ last.op = "DeletePost"
    /\ last.key = postKey("post-1")
    /\ last.key \in gone
    /\ last.err = "PostNotFoundError"
    /\ mapErrorToResponse(last.err).status = 404

-----------------------------------------------------------------------------
(* WriteSpec: CreatePost, UpdatePost and GetPost with requests on both     *)
(* sides of every length limit.                                            *)

WriteTitles ==
    {Text("", 0), Text("t1", 2), Text("max", MaxTitleLength),
     Text("long", MaxTitleLength + 1)}
WriteContents ==
    {Text("", 0), Text("c1", 2), Text("max", MaxContentLength),
     Text("huge", MaxContentLength + 1)}
WriteRequests == [title : WriteTitles, content : WriteContents]

WriteNext ==
    \/ Tick
    \/ \E req \in WriteRequests : CreateId(Creator, req)
    \/ CreateStamp(Creator)
    \/ CreateSet(Creator)
    \/ \E id \in RequestIds, req \in WriteRequests : UpdateGet(Updater, id, req)
    \/ UpdateStamp(Updater)
    \/ UpdateSet(Updater)
    \/ \E id \in RequestIds : GetPost(id)

WriteSpec == Init /\ [][WriteNext]_vars

\* a step that completes a CreatePost or an UpdatePost whose title is not
\* of 1..200 characters or whose content is not of 1..10000 characters
InvalidWriteReturns ==
    /\ last'.op \in {"CreatePost", "UpdatePost"}
    /\ last' # last
    /\ \/ last'.arg.title.runes \notin 1..200
       \/ last'.arg.content.runes \notin 1..10000

\* C28: a CreatePost or UpdatePost with an invalid request returns
\* ValidationError and writes nothing: the store's map is what it was, so
\* no later GetPost or ListPosts shows a new or a modified post.
C28_InvalidRequestWritesNothing ==
    [][InvalidWriteReturns =>
          /\ last'.err = "ValidationError"
          /\ data' = data]_vars

\* an UpdatePost of a stored post refused for its content of 10001
\* characters, the post as it was
C28_Witness ==
    /\ last.op = "UpdatePost"
    /\ last.key \in DOMAIN data
    /\ last.arg.title.runes = 2
    /\ last.arg.content.runes = 10001
    /\ last.err = "ValidationError"
    /\ StoredPost(data, last.key).content.runes # 10001

-----------------------------------------------------------------------------
(* MetricsSpec: goroutines that call a MemoryStore through the            *)
(* MetricsStore that wraps it. data is the map of the wrapped store. The   *)
(* lock of the store is held within the store call and within Size only:   *)
(* the store call, RecordStorageOperation, Size and SetStorageItemsCount   *)
(* are steps of their own, and the calls of other goroutines run between   *)
(* them.                                                                   *)

\* MetricsCollector.RecordStorageOperation: the counter and the histogram
\* of the operation's label; the label is what is kept of them
RecordStorageOperation(m, operation) == [m EXCEPT !.ops = @ \cup {operation}]

\* MetricsCollector.SetStorageItemsCount
SetStorageItemsCount(m, count) == [m EXCEPT !.items = count]

\* MetricsStore.Set, line 108: err := s.store.Set(key, value)
MetricsSetOp(d, key, value) ==
    LET r == SetOp(d, key, value) IN [data |-> r.data, err |-> r.err]

MetricsGetOpWrapsError(d, key) ==
    LET r == GetOp(d, key) IN
    [err |-> IF r.err = "nil" THEN "nil" ELSE "StorageError", val |-> r.val]

\* MetricsStore.Get, line 120: value, err = s.store.Get(key)
MetricsGetOp(d, key) ==
    LET r == GetOp(d, key) IN [err |-> r.err, val |-> r.val]

\* MetricsStore.GetTyped, line 131: err := s.store.GetTyped(key, value)
MetricsGetTypedOp(d, key, shape) ==
    LET r == GetTypedOp(d, key, shape) IN [err |-> r.err, val |-> r.val]

\* MetricsStore.List, line 142: every result s.store.List may return
MetricsListOp(d, keyPrefix) ==
    {[err |-> "nil", vals |-> values] : values \in ListOp(d, keyPrefix)}

\* MetricsStore.Delete, line 153: err := s.store.Delete(key)
MetricsDeleteOp(d, key) ==
    LET r == DeleteOp(d, key) IN [data |-> r.data, err |-> r.err]

\* MetricsStore.Close: return s.store.Close()
MetricsCloseOp(d) ==
    LET r == CloseOp(d) IN [data |-> r.data, err |-> r.err]

\* the label RecordStorageOperation is called with
LabelOf(op) ==
    CASE op = "MetricsStore.Set" -> "set"
      [] op \in {"MetricsStore.Get", "MetricsStore.GetTyped"} -> "get"
      [] op = "MetricsStore.List" -> "list"
      [] op = "MetricsStore.Delete" -> "delete"

\* MetricsStore.Set, lines 107-109: the call of the wrapped store
MetricsSet(p, key, value) ==
    /\ pc[p] = "idle"
    /\ LET r == MetricsSetOp(data, key, value) IN
       /\ data' = r.data
       /\ res' = [res EXCEPT ![p] = [NoRes EXCEPT !.err = r.err]]
    /\ call' = [call EXCEPT ![p] = [op |-> "MetricsStore.Set", key |-> key, arg |-> value]]
    /\ pc' = [pc EXCEPT ![p] = "metrics-record"]
    /\ UNCHANGED <<clock, last, pre, gone, trav,
                   visited, snap, wmu, readers, hist, libVars>>

\* MetricsStore.Get, lines 119-121: the call of the wrapped store
MetricsGet(p, key) ==
    /\ pc[p] = "idle"
    /\ LET r == MetricsGetOp(data, key) IN
       res' = [res EXCEPT ![p] = [NoRes EXCEPT !.err = r.err, !.val = r.val]]
    /\ call' = [call EXCEPT ![p] = [op |-> "MetricsStore.Get", key |-> key, arg |-> Nil]]
    /\ pc' = [pc EXCEPT ![p] = "metrics-record"]
    /\ UNCHANGED <<data, clock, last, pre, gone, trav,
                   visited, snap, wmu, readers, hist, libVars>>

\* MetricsStore.GetTyped, lines 130-132: the call of the wrapped store
MetricsGetTyped(p, key, shape) ==
    /\ pc[p] = "idle"
    /\ LET r == MetricsGetTypedOp(data, key, shape) IN
       res' = [res EXCEPT ![p] = [NoRes EXCEPT !.err = r.err, !.val = r.val]]
    /\ call' = [call EXCEPT ![p] =
                   [op |-> "MetricsStore.GetTyped", key |-> key, arg |-> Str(shape)]]
    /\ pc' = [pc EXCEPT ![p] = "metrics-record"]
    /\ UNCHANGED <<data, clock, last, pre, gone, trav,
                   visited, snap, wmu, readers, hist, libVars>>

\* MetricsStore.List, lines 141-143: the call of the wrapped store
MetricsList(p, keyPrefix) ==
    /\ pc[p] = "idle"
    /\ \E r \in MetricsListOp(data, keyPrefix) :
          res' = [res EXCEPT ![p] = [NoRes EXCEPT !.err = r.err, !.vals = r.vals]]
    /\ call' = [call EXCEPT ![p] = [op |-> "MetricsStore.List", key |-> keyPrefix, arg |-> Nil]]
    /\ pc' = [pc EXCEPT ![p] = "metrics-record"]
    /\ UNCHANGED <<data, clock, last, pre, gone, trav,
                   visited, snap, wmu, readers, hist, libVars>>

\* MetricsStore.Delete, lines 152-154: the call of the wrapped store
MetricsDelete(p, key) ==
    /\ pc[p] = "idle"
    /\ LET r == MetricsDeleteOp(data, key) IN
       /\ data' = r.data
       /\ res' = [res EXCEPT ![p] = [NoRes EXCEPT !.err = r.err]]
    /\ call' = [call EXCEPT ![p] = [op |-> "MetricsStore.Delete", key |-> key, arg |-> Nil]]
    /\ pc' = [pc EXCEPT ![p] = "metrics-record"]
    /\ UNCHANGED <<clock, last, pre, gone, trav,
                   visited, snap, wmu, readers, hist, libVars>>

\* s.metrics.RecordStorageOperation(label, duration); Get, GetTyped and
\* List return after it, Set and Delete go on to updateStorageMetrics
MetricsRecord(p) ==
    /\ pc[p] = "metrics-record"
    /\ metrics' = RecordStorageOperation(metrics, LabelOf(call[p].op))
    /\ IF call[p].op \in {"MetricsStore.Set", "MetricsStore.Delete"}
       THEN /\ pc' = [pc EXCEPT ![p] = "gauge-size"]
            /\ UNCHANGED <<last, call, res>>
       ELSE /\ last' = Done(call[p].op, call[p].key, call[p].arg,
                            res[p].err, res[p].val, res[p].vals)
            /\ pc' = [pc EXCEPT ![p] = "idle"]
            /\ call' = [call EXCEPT ![p] = NoOp]
            /\ res' = [res EXCEPT ![p] = NoRes]
    /\ UNCHANGED <<data, clock, pre, gone, trav,
                   visited, snap, wmu, readers, hist, mem, heap, sent>>

\* updateStorageMetrics, line 171: size := sizeable.Size()
GaugeSize(p) ==
    /\ pc[p] = "gauge-size"
    /\ res' = [res EXCEPT ![p].n = SizeOp(data)]
    /\ pc' = [pc EXCEPT ![p] = "gauge-write"]
    /\ UNCHANGED <<data, clock, last, pre, gone, trav, call,
                   visited, snap, wmu, readers, hist, libVars>>

\* updateStorageMetrics, line 172: SetStorageItemsCount(size), and the
\* return of Set or Delete
GaugeWrite(p) ==
    /\ pc[p] = "gauge-write"
    /\ metrics' = SetStorageItemsCount(metrics, res[p].n)
    /\ last' = Done(call[p].op, call[p].key, call[p].arg, res[p].err, Nil, <<>>)
    /\ pc' = [pc EXCEPT ![p] = "idle"]
    /\ call' = [call EXCEPT ![p] = NoOp]
    /\ res' = [res EXCEPT ![p] = NoRes]
    /\ UNCHANGED <<data, clock, pre, gone, trav,
                   visited, snap, wmu, readers, hist, mem, heap, sent>>

\* MetricsStore.Close, lines 163-165: store.Close and nothing else
MetricsClose(p) ==
    /\ pc[p] = "idle"
    /\ LET r == MetricsCloseOp(data) IN
       /\ data' = r.data
       /\ last' = Done("MetricsStore.Close", EmptyKey, Nil, r.err, Nil, <<>>)
    /\ UNCHANGED <<clock, pre, gone, trav, concVars, libVars>>

MetricsKeys == {EmptyKey, postKey("post-1")}
MetricsValues == {Str("v1"), Chan}

MetricsNext ==
    \/ \E p \in Procs, k \in MetricsKeys, v \in MetricsValues : MetricsSet(p, k, v)
    \/ \E p \in Procs, k \in MetricsKeys : MetricsGet(p, k)
    \/ \E p \in Procs, k \in MetricsKeys, sh \in MetricsShapes : MetricsGetTyped(p, k, sh)
    \/ \E p \in Procs : MetricsList(p, <<>>)
    \/ \E p \in Procs, k \in MetricsKeys : MetricsDelete(p, k)
    \/ \E p \in Procs : MetricsRecord(p)
    \/ \E p \in Procs : GaugeSize(p)
    \/ \E p \in Procs : GaugeWrite(p)
    \/ \E p \in Procs : MetricsClose(p)

MetricsSpec == Init /\ [][MetricsNext]_vars

\* the step in which goroutine p makes the call of the wrapped store
WrappedCallBy(p) == pc[p] = "idle" /\ pc'[p] = "metrics-record"

\* the step in which the call of goroutine p through the wrapper returns
WrapperReturnBy(p) == pc[p] # "idle" /\ pc'[p] = "idle"

\* C29: every call made through MetricsStore returns what the same call on
\* the wrapped store returns, the value and the error (ErrKeyNotFound as
\* itself), and leaves the wrapped store as that call leaves it.
C29_TransparentWrapper ==
    [][/\ \A p \in Procs : WrappedCallBy(p) =>
             LET c == call'[p]
                 r == res'[p]
             IN /\ c.op = "MetricsStore.Set" =>
                      /\ r.err = SetOp(data, c.key, c.arg).err
                      /\ data' = SetOp(data, c.key, c.arg).data
                /\ c.op = "MetricsStore.Get" =>
                      /\ r.err = GetOp(data, c.key).err
                      /\ r.val = GetOp(data, c.key).val
                      /\ (c.key # EmptyKey /\ c.key \notin DOMAIN data) =>
                             r.err = "ErrKeyNotFound"
                      /\ data' = data
                /\ c.op = "MetricsStore.GetTyped" =>
                      /\ r.err = GetTypedOp(data, c.key, c.arg.s).err
                      /\ r.val = GetTypedOp(data, c.key, c.arg.s).val
                      /\ data' = data
                /\ c.op = "MetricsStore.List" =>
                      /\ r.err = "nil"
                      /\ r.vals \in ListOp(data, c.key)
                      /\ data' = data
                /\ c.op = "MetricsStore.Delete" =>
                      /\ r.err = DeleteOp(data, c.key).err
                      /\ data' = DeleteOp(data, c.key).data
       /\ \A p \in Procs : WrapperReturnBy(p) =>
             /\ last'.op = call[p].op
             /\ last'.err = res[p].err
             /\ last'.val = res[p].val
             /\ last'.vals = res[p].vals
             /\ data' = data
       /\ (last'.op = "MetricsStore.Close" /\ last' # last) =>
             /\ last'.err = CloseOp(data).err
             /\ data' = CloseOp(data).data]_vars

\* a Get through the wrapper for a key the store held and holds no more
C29_Witness ==
    /\ last.op = "MetricsStore.Get"
    /\ last.err = "ErrKeyNotFound"
    /\ last.key \notin DOMAIN data
    /\ {"set", "delete"} \subseteq metrics.ops

-----------------------------------------------------------------------------
(* CodecSpec: EncodeCursor and DecodeCursor on the text of the token. An   *)
(* id is a sequence of characters of five kinds: "a" a letter or digit,    *)
(* "q" a double quote, "lt" a less-than sign, "rep" the rune U+FFFD and    *)
(* "bad" a byte that is not valid UTF-8.                                   *)

CharKinds == {"a", "q", "lt", "rep", "bad"}

\* the ids of at most MaxIdLen characters
IdTexts == UNION {[1..n -> CharKinds] : n \in 0..MaxIdLen}
CursorLimitTexts == {-5, 0, 2, 20, 1000}
CursorInputs == [id : IdTexts, limit : CursorLimitTexts]

\* json.Marshal of a string: the bytes one character is written with; a
\* quote as \", a less-than sign as \u003c, an invalid byte as \ufffd
EscapedLen(ch) ==
    CASE ch = "a" -> 1
      [] ch = "q" -> 2
      [] ch = "lt" -> 6
      [] ch = "rep" -> 3
      [] ch = "bad" -> 6

\* json.Unmarshal of what json.Marshal wrote for a character
Unescaped(ch) == IF ch = "bad" THEN "rep" ELSE ch

RECURSIVE Digits(_)
\* the length of the decimal text of an int
Digits(n) ==
    IF n < 0 THEN 1 + Digits(-n)
    ELSE IF n < 10 THEN 1
    ELSE 1 + Digits(n \div 10)

RECURSIVE SumLen(_)
SumLen(id) == IF id = <<>> THEN 0 ELSE EscapedLen(Head(id)) + SumLen(Tail(id))

\* json.Marshal(cursor): the text {"id":"...","limit":n} and its length
MarshalCursor(c) ==
    [id |-> [i \in 1..Len(c.id) |-> Unescaped(c.id[i])],
     limit |-> c.limit,
     len |-> 7 + SumLen(c.id) + 10 + Digits(c.limit) + 1]

\* base64.URLEncoding.EncodeToString: the text encoded and the number of
\* padding characters that end the token
EncodeToString(json) == [empty |-> FALSE, json |-> json, pad |-> (3 - (json.len % 3)) % 3]

\* the empty string
EmptyText == [empty |-> TRUE, json |-> Nil, pad |-> 0]

\* the characters a token is written with: the alphabet of
\* base64.URLEncoding and, if the token is padded, the padding character
TokenAlphabet(t) ==
    IF t.empty THEN {}
    ELSE {"alnum", "-", "_"} \cup (IF t.pad > 0 THEN {"="} ELSE {})

\* EncodeCursor of a non-nil cursor
EncodeCursorText(c) == EncodeToString(MarshalCursor(c))

\* DecodeCursor: "" is no cursor; base64.URLEncoding.DecodeString rejects
\* a token whose padding is not the one its length asks for
DecodeCursorText(t) ==
    IF t.empty THEN [err |-> "nil", isNil |-> TRUE, id |-> <<>>, limit |-> 0]
    ELSE IF t.pad # (3 - (t.json.len % 3)) % 3
    THEN [err |-> "PaginationError", isNil |-> TRUE, id |-> <<>>, limit |-> 0]
    ELSE [err |-> "nil", isNil |-> FALSE, id |-> t.json.id, limit |-> t.json.limit]

\* EncodeCursor(c), and DecodeCursor of the token
RoundTrip(c) ==
    LET t == EncodeCursorText(c) IN
    /\ last' = Done("EncodeCursor", EmptyKey, [kind |-> "cursor", id |-> c.id, limit |-> c.limit],
                    "nil",
                    [kind |-> "token", alphabet |-> TokenAlphabet(t),
                     pad |-> t.pad, decoded |-> DecodeCursorText(t)], <<>>)
    /\ UNCHANGED <<data, clock, pre, gone, trav, concVars, libVars>>

\* DecodeCursor of the empty string, or of a token a client has taken the
\* padding off
DecodeText(t) ==
    /\ last' = Done("DecodeCursor", EmptyKey, [kind |-> "text", text |-> t],
                    DecodeCursorText(t).err,
                    [kind |-> "decoded", decoded |-> DecodeCursorText(t)], <<>>)
    /\ UNCHANGED <<data, clock, pre, gone, trav, concVars, libVars>>

CodecNext ==
    \/ \E c \in CursorInputs : RoundTrip(c)
    \/ \E t \in {EmptyText}
                 \cup {[EncodeCursorText(c) EXCEPT !.pad = 0] : c \in CursorInputs} :
           DecodeText(t)

CodecSpec == Init /\ [][CodecNext]_vars

\* the characters that need no escaping in a URL
Unreserved == {"alnum", "-", ".", "_", "~"}

\* C33: DecodeCursor of EncodeCursor of a cursor returns, without error, a
\* cursor of the same id and limit, for every id and limit; the token is
\* written with URL-safe characters only; DecodeCursor("") returns no
\* cursor and no error.
C33_CursorRoundTrip ==
    /\ last.op = "EncodeCursor" =>
          /\ last.val.decoded.err = "nil"
          /\ ~last.val.decoded.isNil
          /\ last.val.decoded.id = last.arg.id
          /\ last.val.decoded.limit = last.arg.limit
          /\ last.val.alphabet \subseteq Unreserved
    /\ (last.op = "DecodeCursor" /\ last.arg.text = EmptyText) =>
          /\ last.err = "nil"
          /\ last.val.decoded.isNil

-----------------------------------------------------------------------------
(* DeleteSpec: DeletePost calls that run between the steps of UpdatePost   *)
(* calls. DeletePost makes one store call, Delete, which holds the lock.   *)

DeleteNext ==
    \/ Tick
    \/ \E p \in Procs, req \in ValidRequests : CreateFirst(p, req)
    \/ \E p \in Procs : CreateStamp(p)
    \/ \E p \in Procs : CreateSet(p)
    \/ \E p \in Procs, id \in PostIds, req \in ValidRequests : UpdateGet(p, id, req)
    \/ \E p \in Procs : UpdateStamp(p)
    \/ \E p \in Procs : UpdateSet(p)
    \/ \E id \in PostIds : DeletePost(id)

DeleteSpec == Init /\ [][DeleteNext]_vars

\* C34: a deleted post stays deleted: once DeletePost(id) has returned
\* success (and no CreatePost has made the id anew), GetPost(id) finds no
\* post and the store lists none under its key, even when an UpdatePost(id)
\* that started before the delete completes after it.
C34_DeletedStaysDeleted ==
    \A id \in PostIds :
        postKey(id) \in gone =>
            /\ GetTypedOp(data, postKey(id), "Post").err = "ErrKeyNotFound"
            /\ postKey(id) \notin Matching(data, PostsPrefix)

-----------------------------------------------------------------------------
(* HealthSpec: goroutines that call DebugService.GetHealthStatus at the    *)
(* same time. checkStorageHealth makes three store calls, Set, Get and     *)
(* Delete, on the one key "health:test"; each holds the lock of the store  *)
(* for itself, and the calls of other goroutines run between them.         *)

\* checkStorageHealth, lines 124-126: Set
HealthSet(p) ==
    /\ pc[p] = "idle"
    /\ LET r == SetOp(data, HealthKey, Str("test")) IN
       /\ data' = r.data
       /\ res' = [res EXCEPT ![p] = [NoRes EXCEPT !.err = r.err]]
       /\ pc' = [pc EXCEPT ![p] = IF r.err = "nil" THEN "health-get" ELSE "health-done"]
    /\ call' = [call EXCEPT ![p] = [op |-> "GetHealthStatus", key |-> HealthKey, arg |-> Nil]]
    /\ UNCHANGED <<clock, last, pre, gone, trav,
                   visited, snap, wmu, readers, hist, libVars>>

\* checkStorageHealth, lines 128-130: Get
HealthGet(p) ==
    /\ pc[p] = "health-get"
    /\ LET r == GetOp(data, HealthKey) IN
       /\ res' = [res EXCEPT ![p] = [NoRes EXCEPT !.err = r.err]]
       /\ pc' = [pc EXCEPT ![p] = IF r.err = "nil" THEN "health-delete" ELSE "health-done"]
    /\ UNCHANGED <<data, clock, last, pre, gone, trav, call,
                   visited, snap, wmu, readers, hist, libVars>>

\* checkStorageHealth, lines 132-137: Delete
HealthDelete(p) ==
    /\ pc[p] = "health-delete"
    /\ LET r == DeleteOp(data, HealthKey) IN
       /\ data' = r.data
       /\ res' = [res EXCEPT ![p] = [NoRes EXCEPT !.err = r.err]]
       /\ pc' = [pc EXCEPT ![p] = "health-done"]
    /\ UNCHANGED <<clock, last, pre, gone, trav, call,
                   visited, snap, wmu, readers, hist, libVars>>

\* GetHealthStatus, lines 55-86: the status it returns
HealthReturn(p) ==
    /\ pc[p] = "health-done"
    /\ last' = Done("GetHealthStatus", HealthKey, [kind |-> "goroutine", p |-> p], "nil",
                    Str(IF res[p].err = "nil" THEN "healthy" ELSE "unhealthy"), <<>>)
    /\ pc' = [pc EXCEPT ![p] = "idle"]
    /\ res' = [res EXCEPT ![p] = NoRes]
    /\ call' = [call EXCEPT ![p] = NoOp]
    /\ UNCHANGED <<data, clock, pre, gone, trav,
                   visited, snap, wmu, readers, hist, libVars>>

HealthNext ==
    \/ \E p \in Procs : HealthSet(p)
    \/ \E p \in Procs : HealthGet(p)
    \/ \E p \in Procs : HealthDelete(p)
    \/ \E p \in Procs : HealthReturn(p)

HealthSpec == Init /\ [][HealthNext]_vars

\* C36: with a store whose every operation works, GetHealthStatus calls
\* that run at the same time all report the status "healthy", and once all
\* of them have returned the key "health:test" is not in the store.
C36_ConcurrentHealthy ==
    /\ last.op = "GetHealthStatus" => last.val = Str("healthy")
    /\ (\A p \in Procs : pc[p] = "idle") => HealthKey \notin DOMAIN data

-----------------------------------------------------------------------------
(* GaugeSpec: goroutines that call Set and Delete of a MetricsStore at the *)
(* same time, and Close and Clear, in the steps of MetricsSpec.            *)

GaugeKeys == {postKey("post-1"), HealthKey}
GaugeValues == {Str("v1"), Chan}

\* MemoryStore.Clear, called on the store the MetricsStore wraps
GaugeClear(p) ==
    /\ pc[p] = "idle"
    /\ data' = ClearOp(data).data
    /\ last' = Done("Clear", EmptyKey, Nil, "nil", Nil, <<>>)
    /\ UNCHANGED <<clock, pre, gone, trav, concVars, libVars>>

GaugeNext ==
    \/ \E p \in Procs, key \in GaugeKeys, value \in GaugeValues : MetricsSet(p, key, value)
    \/ \E p \in Procs, key \in GaugeKeys : MetricsDelete(p, key)
    \/ \E p \in Procs : MetricsRecord(p)
    \/ \E p \in Procs : GaugeSize(p)
    \/ \E p \in Procs : GaugeWrite(p)
    \/ \E p \in Procs : MetricsClose(p)
    \/ \E p \in Procs : GaugeClear(p)

GaugeSpec == Init /\ [][GaugeNext]_vars

\* C37: whenever no store operation is in progress, the storage-items
\* gauge equals the number of live entries of the store, after any
\* interleaving of Set and Delete calls through the MetricsStore and after
\* Close or Clear.
C37_GaugeTracksStore ==
    (\A p \in Procs : pc[p] = "idle") =>
        metrics.items = Cardinality(DOMAIN data)

-----------------------------------------------------------------------------
(* ShutdownSpec: main after the server has started, and the goroutines of  *)
(* the HTTP server that run the request handlers. Goroutine MainProc is    *)
(* main: it waits for the signal, calls server.Shutdown with a context of  *)
(* five seconds, calls store.Close and returns. Shutdown closes the        *)
(* listeners; it returns nil once no request is in flight, and the error   *)
(* of the context once the five seconds are over, whatever is in flight.   *)

MainProc == 1
Handlers == Procs \ {MainProc}
HandlerRequests ==
    [op : {"Set"}, key : GaugeKeys, arg : {Str("v1"), Str("v2")}]
        \cup [op : {"Delete"}, key : GaugeKeys, arg : {Nil}]

\* main, line 189: <-quit returns
Signal ==
    /\ pc[MainProc] = "idle"
    /\ pc' = [pc EXCEPT ![MainProc] = "signalled"]
    /\ UNCHANGED <<data, clock, last, pre, gone, trav, call, res,
                   visited, snap, wmu, readers, hist, libVars>>

\* main, lines 194-197: server.Shutdown(ctx) is called and closes the
\* listeners
ShutdownCall ==
    /\ pc[MainProc] = "signalled"
    /\ pc' = [pc EXCEPT ![MainProc] = "shutting"]
    /\ UNCHANGED <<data, clock, last, pre, gone, trav, call, res,
                   visited, snap, wmu, readers, hist, libVars>>

\* server.Shutdown returns: nil when no request is in flight, the error of
\* the context when its five seconds are over
ShutdownReturn ==
    /\ pc[MainProc] = "shutting"
    /\ \E timeout \in BOOLEAN :
          /\ ~timeout => \A h \in Handlers : pc[h] = "idle"
          /\ res' = [res EXCEPT ![MainProc] =
                        [NoRes EXCEPT !.err = IF timeout THEN "DeadlineExceeded" ELSE "nil"]]
    /\ pc' = [pc EXCEPT ![MainProc] = "shutdown-returned"]
    /\ UNCHANGED <<data, clock, last, pre, gone, trav, call,
                   visited, snap, wmu, readers, hist, libVars>>

\* main, lines 201-203: store.Close()
StoreClose ==
    /\ pc[MainProc] = "shutdown-returned"
    /\ data' = CloseOp(data).data
    /\ last' = Done("Close", EmptyKey, Nil, CloseOp(data).err, Nil, <<>>)
    /\ pc' = [pc EXCEPT ![MainProc] = "closed"]
    /\ UNCHANGED <<clock, pre, gone, trav, call, res,
                   visited, snap, wmu, readers, hist, libVars>>

\* main returns and the process ends with it
MainReturn ==
    /\ pc[MainProc] = "closed"
    /\ pc' = [pc EXCEPT ![MainProc] = "exited"]
    /\ UNCHANGED <<data, clock, last, pre, gone, trav, call, res,
                   visited, snap, wmu, readers, hist, libVars>>

\* the server accepts a request while its listeners are open and starts
\* the handler
HandlerAccept(h, req) ==
    /\ pc[MainProc] \in {"idle", "signalled"}
    /\ pc[h] = "idle"
    /\ call' = [call EXCEPT ![h] = req]
    /\ pc' = [pc EXCEPT ![h] = "handling"]
    /\ UNCHANGED <<data, clock, last, pre, gone, trav, res,
                   visited, snap, wmu, readers, hist, libVars>>

\* the handler makes its store call; the process is still running
HandlerStore(h) ==
    /\ pc[MainProc] # "exited"
    /\ pc[h] = "handling"
    /\ LET r == IF call[h].op = "Set" THEN SetOp(data, call[h].key, call[h].arg)
                ELSE DeleteOp(data, call[h].key)
       IN /\ data' = r.data
          /\ res' = [res EXCEPT ![h] = [NoRes EXCEPT !.err = r.err]]
          /\ last' = Done(call[h].op, call[h].key, call[h].arg, r.err, Nil, <<>>)
    /\ pc' = [pc EXCEPT ![h] = "responding"]
    /\ UNCHANGED <<clock, pre, gone, trav, call,
                   visited, snap, wmu, readers, hist, libVars>>

\* the handler writes its response and the request is over
HandlerRespond(h) ==
    /\ pc[MainProc] # "exited"
    /\ pc[h] = "responding"
    /\ pc' = [pc EXCEPT ![h] = "idle"]
    /\ call' = [call EXCEPT ![h] = NoOp]
    /\ res' = [res EXCEPT ![h] = NoRes]
    /\ UNCHANGED <<data, clock, last, pre, gone, trav,
                   visited, snap, wmu, readers, hist, libVars>>

ShutdownNext ==
    \/ Signal
    \/ ShutdownCall
    \/ ShutdownReturn
    \/ StoreClose
    \/ MainReturn
    \/ \E h \in Handlers, req \in HandlerRequests : HandlerAccept(h, req)
    \/ \E h \in Handlers : HandlerStore(h)
    \/ \E h \in Handlers : HandlerRespond(h)

ShutdownSpec == Init /\ [][ShutdownNext]_vars

\* store.Close has run
StoreClosed == pc[MainProc] \in {"closed", "exited"}

\* C38: after the signal the store is closed only after server.Shutdown
\* has returned, and no request handler makes a store call after
\* store.Close has run, also when Shutdown returns because its five
\* seconds are over with requests still in flight.
C38_ShutdownOrdering ==
    [][/\ (StoreClosed' /\ ~StoreClosed) => pc[MainProc] = "shutdown-returned"
       /\ (\E h \in Handlers : pc[h] = "handling" /\ pc'[h] = "responding") =>
              ~StoreClosed]_vars

====
